---- MODULE Spec2Model ----
(***************************************************************************)
(* Multi-model consensus engine: the Orchestrator (registry, participant   *)
(* resolution, parallel dispatch with per-call timeout, critique round)    *)
(* and the Consensus Engine (scoring, ranking, merge strategy).            *)
(*                                                                         *)
(* Numbers.  The code computes in IEEE doubles; the model computes the     *)
(* same expressions exactly, in fixed point:                               *)
(*   a confidence c          is the integer c * Unit                       *)
(*   a sub-score s (0..10)   is the integer s * Unit                       *)
(*   a total t (weighted)    is the integer t * Unit * 100                 *)
(*   consensusScore x        is the integer x * Unit * 100 * 10 * AvgDen   *)
(*                                                                         *)
(* Text.  Proposals are strings.  A TLA+ string cannot hold a backquote,   *)
(* so the markdown fence of three backquotes is written FENCE ("~~~").     *)
(***************************************************************************)
EXTENDS Integers, Sequences, FiniteSets, TLC

\* ------------------------------------------------------------------------
\* Bounds of the model
\* ------------------------------------------------------------------------

\* longest enabledModels list passed to run()
MaxEnabled == 2

\* ask() calls of finished runs that may still be in flight
MaxLate == 1

\* ------------------------------------------------------------------------
\* Fixed point
\* ------------------------------------------------------------------------

Unit == 12 * 500
TotalUnit == Unit * 100
AvgDen == 3 * 4
ScoreUnit == TotalUnit * 10 * AvgDen

\* the one element of a set of one: Val({ e(x) : x \in { d } }) is e(d), with d
\* computed once
Val(S) == CHOOSE v \in S : TRUE

Min(a, b) == IF a <= b THEN a ELSE b
Max(a, b) == IF a >= b THEN a ELSE b

\* ------------------------------------------------------------------------
\* Strings (JavaScript String methods used by the code)
\* ------------------------------------------------------------------------

FENCE == "~~~"

Whitespace == {" ", "\t", "\n", "\r", "\f"}

CharAt(s, i) == SubSeq(s, i, i)

\* s.startsWith(p, at i)
StartsAt(s, p, i) ==
    /\ i >= 1
    /\ i + Len(p) - 1 <= Len(s)
    /\ SubSeq(s, i, i + Len(p) - 1) = p

\* least element of a non-empty set of integers
Least(S) == CHOOSE j \in S : \A k \in S : j <= k

\* greatest element of a non-empty set of integers
Greatest(S) == CHOOSE j \in S : \A k \in S : j >= k

\* s.indexOf(p, from i), 1-based; 0 when absent
IndexFrom(s, p, i) ==
    LET hits == { j \in i..(Len(s) - Len(p) + 1) : SubSeq(s, j, j + Len(p) - 1) = p }
    IN  IF hits = {} THEN 0 ELSE Least(hits)

\* s.includes(p)
Includes(s, p) == IndexFrom(s, p, 1) # 0

\* first index >= i holding a non-whitespace character (Len(s)+1 if none)
SkipSpace(s, i) ==
    LET stops == { j \in i..Len(s) : CharAt(s, j) \notin Whitespace }
    IN  IF stops = {} THEN Max(i, Len(s) + 1) ELSE Least(stops)

\* last index <= i holding a non-whitespace character (0 if none)
SkipSpaceBack(s, i) ==
    LET stops == { j \in 1..i : CharAt(s, j) \notin Whitespace }
    IN  IF stops = {} THEN 0 ELSE Greatest(stops)

\* s.trim()
Trim(s) == SubSeq(s, SkipSpace(s, 1), SkipSpaceBack(s, Len(s)))

\* q.map(F), as a tuple
Map(q, F(_)) == << >> \o [ i \in 1..Len(q) |-> F(q[i]) ]

\* sum of f[i] over a sequence of integers
RECURSIVE SumSeq(_)
SumSeq(q) == IF q = << >> THEN 0 ELSE Head(q) + SumSeq(Tail(q))

\* ------------------------------------------------------------------------
\* Character classes of the regular expressions
\* ------------------------------------------------------------------------

UpperChars == "ABCDEFGHIJKLMNOPQRSTUVWXYZ"
LowerChars == "abcdefghijklmnopqrstuvwxyz"
DigitChars == "0123456789"

CharsOf(s) == { CharAt(s, i) : i \in 1..Len(s) }

\* \w
WordChars == CharsOf(UpperChars) \cup CharsOf(LowerChars) \cup CharsOf(DigitChars) \cup {"_"}

LowerChar(c) ==
    LET k == IndexFrom(UpperChars, c, 1)
    IN  IF k = 0 THEN c ELSE CharAt(LowerChars, k)

\* s.toLowerCase(), the folding of the /i flag (by halves)
RECURSIVE ToLower(_)
ToLower(s) ==
    IF Len(s) = 0 THEN s
    ELSE IF Len(s) = 1 THEN LowerChar(s)
    ELSE ToLower(SubSeq(s, 1, Len(s) \div 2)) \o ToLower(SubSeq(s, Len(s) \div 2 + 1, Len(s)))

\* first index >= i holding a character outside \w (Len(s)+1 if none)
SkipWord(s, i) ==
    LET stops == { j \in i..Len(s) : CharAt(s, j) \notin WordChars }
    IN  IF stops = {} THEN Max(i, Len(s) + 1) ELSE Least(stops)

\* first index >= i holding a \w character (Len(s)+1 if none)
SkipNonWord(s, i) ==
    LET stops == { j \in i..Len(s) : CharAt(s, j) \in WordChars }
    IN  IF stops = {} THEN Max(i, Len(s) + 1) ELSE Least(stops)

\* p matches s at index i, letter case ignored when ci (the /i flag)
StartsAtFold(s, p, i, ci) ==
    /\ i >= 1
    /\ i + Len(p) - 1 <= Len(s)
    /\ IF ci THEN ToLower(SubSeq(s, i, i + Len(p) - 1)) = ToLower(p)
             ELSE SubSeq(s, i, i + Len(p) - 1) = p

\* /w1\s{minSep,}w2/ tested against s; ci is the /i flag.  w2 starts with a
\* non-space character, so the greedy \s run ends exactly where w2 starts.
TestWordsSep(s, w1, minSep, w2, ci) ==
    \E i \in 1..Len(s) :
        /\ StartsAtFold(s, w1, i, ci)
        /\ LET j == SkipSpace(s, i + Len(w1))
           IN  /\ j - (i + Len(w1)) >= minSep
               /\ StartsAtFold(s, w2, j, ci)

\* ------------------------------------------------------------------------
\* Response Parser
\* ------------------------------------------------------------------------

\* markdown.replace(/FENCE[\s\S]*?FENCE/g, ''), scanning from index i
RECURSIVE RemoveFenced(_, _)
RemoveFenced(s, i) ==
    LET a == IndexFrom(s, FENCE, i)
        b == IF a = 0 THEN 0 ELSE IndexFrom(s, FENCE, a + Len(FENCE))
    IN  IF b = 0 THEN SubSeq(s, i, Len(s))
        ELSE SubSeq(s, i, a - 1) \o RemoveFenced(s, b + Len(FENCE))

\* first index >= i that does not hold a newline
SkipNewlines(s, i) ==
    LET stops == { j \in i..Len(s) : CharAt(s, j) # "\n" }
    IN  IF stops = {} THEN Max(i, Len(s) + 1) ELSE Least(stops)

\* s.replace(/\n{3,}/g, '\n\n'), scanning from index i
RECURSIVE CollapseNewlines(_, _)
CollapseNewlines(s, i) ==
    LET a == IndexFrom(s, "\n\n\n", i)
    IN  IF a = 0 THEN SubSeq(s, i, Len(s))
        ELSE SubSeq(s, i, a - 1) \o "\n\n" \o CollapseNewlines(s, SkipNewlines(s, a))

ComputeExplanation(markdown) ==
    LET withoutCode == Trim(RemoveFenced(markdown, 1))
    IN  CollapseNewlines(withoutCode, 1)

\* ------------------------------------------------------------------------
\* Participant capability (automation controllers)
\* ------------------------------------------------------------------------

\* s.trimEnd()
TrimEnd(s) == SubSeq(s, 1, SkipSpaceBack(s, Len(s)))

\* last index in lo..hi holding a newline (0 if none)
LastNewline(s, lo, hi) ==
    LET hits == { j \in lo..hi : CharAt(s, j) = "\n" }
    IN  IF hits = {} THEN 0 ELSE Greatest(hits)

\* BaseController.parseCodeBlocks: /FENCE(\w*)\s*\n([\s\S]*?)FENCE/g from index i
RECURSIVE parseCodeBlocksFrom(_, _)
parseCodeBlocksFrom(text, i) ==
    LET a == IndexFrom(text, FENCE, i)
        langEnd == SkipWord(text, a + Len(FENCE))
        wsEnd == SkipSpace(text, langEnd)
        nl == LastNewline(text, langEnd, wsEnd - 1)
        close == IF nl = 0 THEN 0 ELSE IndexFrom(text, FENCE, nl + 1)
        tag == SubSeq(text, a + Len(FENCE), langEnd - 1)
        lang == IF tag = "" THEN "text" ELSE tag
        code == TrimEnd(SubSeq(text, nl + 1, close - 1))
    IN  IF a = 0 THEN << >>
        ELSE IF close = 0 THEN parseCodeBlocksFrom(text, a + 1)
        ELSE << [ language |-> lang,
                  code |-> code,
                  filename |-> "",
                  isDiff |-> \/ lang = "diff"
                             \/ /\ Includes(code, "---")
                                /\ Includes(code, "+++")
                                /\ Includes(code, "@@") ] >>
             \o parseCodeBlocksFrom(text, close + Len(FENCE))

parseCodeBlocks(text) == parseCodeBlocksFrom(text, 1)

\* BaseController.ask, an attempt that succeeds: the reply built from the raw text
AskSucceeded(rawResponse) ==
    LET codeBlocks == parseCodeBlocks(rawResponse)
    IN  [ proposal |-> rawResponse,
          codeBlocks |-> codeBlocks,
          confidence |-> (7 * Unit) \div 10 + (IF Len(codeBlocks) > 0 THEN (2 * Unit) \div 10 ELSE 0),
          error |-> "" ]

\* BaseController.ask, every attempt failed: an empty reply carrying the error
AskExhausted ==
    [ proposal |-> "", codeBlocks |-> << >>, confidence |-> 0, error |-> "attempt failed" ]

\* The replies of the model sessions: the explanation and the code of each, and
\* the raw text the page shows
ExplainGuard == "Add a guard clause before the loop so an empty list returns early."
CodeGuard == "if (items.length === 0) return build([]);"
RawGuard == ExplainGuard \o "\n\n" \o FENCE \o "ts\n" \o CodeGuard \o "\n" \o FENCE

ExplainClean ==
    "Remove the stale build directory first, then rebuild the project from scratch; "
    \o "the cache keeps the old bundle alive and the loop reads it."
CodeClean == "rm -rf build\nnpm run build"
RawClean == ExplainClean \o "\n\n" \o FENCE \o "sh\n" \o CodeClean \o "\n" \o FENCE \o "\n"

RawPlain == "No change is needed."

\* further replies: a short explanation with the code of RawGuard, and two
\* blocks of shell and script that match four of the dangerPatterns between them
ExplainBrief == "Use a guard."
RawBrief == ExplainBrief \o "\n\n" \o FENCE \o "ts\n" \o CodeGuard \o "\n" \o FENCE

ExplainTagged == "Create the module."
CodeTagged == "export const limit = 10;"
RawTagged ==
    ExplainTagged \o "\n\n" \o FENCE \o "ts:src/new.ts\n" \o CodeTagged \o "\n" \o FENCE

ExplainWipe == "Run this."
CodeWipe == "rm -rf /tmp/cache\neval(source)"
CodeHalt == "rm  -RF /tmp/build # again\nexec (command)\nprocess.exit(1)"
RawWipe ==
    ExplainWipe \o "\n\n" \o FENCE \o "sh\n" \o CodeWipe \o "\n" \o FENCE
    \o "\n\n" \o FENCE \o "js\n" \o CodeHalt \o "\n" \o FENCE

\* a code block that is not a diff and has no file name
Block(lang, code) == [ language |-> lang, code |-> code, filename |-> "", isDiff |-> FALSE ]

\* A reply of a ModelController that is not a BaseController: the interface
\* fixes the type of confidence (number), not its range.
ForeignReply ==
    [ proposal |-> RawPlain, codeBlocks |-> << >>, confidence |-> (15 * Unit) \div 10, error |-> "" ]

\* What a controller's ask() can resolve with: AskSucceeded of the two raw
\* texts, written out (RepliesAgree), then AskExhausted and ForeignReply
Replies ==
    << [ proposal |-> RawGuard, codeBlocks |-> << Block("ts", CodeGuard) >>,
         confidence |-> (9 * Unit) \div 10, error |-> "" ],
       [ proposal |-> RawClean, codeBlocks |-> << Block("sh", CodeClean) >>,
         confidence |-> (9 * Unit) \div 10, error |-> "" ],
       AskExhausted,
       ForeignReply >>

RepliesAgree ==
    /\ Replies[1] = AskSucceeded(RawGuard)
    /\ Replies[2] = AskSucceeded(RawClean)

ReplyIds == 1..Len(Replies)

\* the ModelResponse a controller named m resolves with
ResponseOf(m, k) ==
    [ model |-> m,
      proposal |-> Replies[k].proposal,
      codeBlocks |-> Replies[k].codeBlocks,
      confidence |-> Replies[k].confidence,
      error |-> Replies[k].error ]

\* ------------------------------------------------------------------------
\* Consensus Engine
\* ------------------------------------------------------------------------

\* Scoring weights, in hundredths (they sum to 100)
WEIGHTS ==
    [ correctness |-> 30, completeness |-> 25, safety |-> 20, style |-> 15, performance |-> 10 ]

\* the text of every reply and of every code block the controllers can return
KnownProposals == { RawGuard, RawClean, RawPlain, RawBrief, RawWipe, RawTagged, "" }

KnownCode == { CodeGuard, CodeClean, CodeWipe, CodeHalt }

\* extractExplanation; its value on the known proposals is written out
\* (ExplanationsAgree)
extractExplanation(markdown) ==
    CASE markdown = RawGuard -> ExplainGuard
      [] markdown = RawClean -> ExplainClean
      [] markdown = RawPlain -> RawPlain
      [] markdown = RawBrief -> ExplainBrief
      [] markdown = RawWipe -> ExplainWipe
      [] markdown = RawTagged -> ExplainTagged
      [] markdown = "" -> ""
      [] OTHER -> ComputeExplanation(markdown)

ExplanationsAgree == \A p \in KnownProposals : extractExplanation(p) = ComputeExplanation(p)

\* the dangerPatterns of scoreProposal: the indexes of those that match code
DangerPatterns == 1..6

DangerMatches(code) ==
    { p \in DangerPatterns :
        CASE p = 1 -> TestWordsSep(code, "rm", 1, "-rf", TRUE)
          [] p = 2 -> TestWordsSep(code, "eval", 0, "(", FALSE)
          [] p = 3 -> TestWordsSep(code, "exec", 0, "(", FALSE)
          [] p = 4 -> Includes(code, "process.exit")
          [] p = 5 -> TestWordsSep(code, "DROP", 1, "TABLE", TRUE)
          [] p = 6 -> TestWordsSep(code, "DELETE", 1, "FROM", TRUE) }

\* the comment test of scoreProposal on one block's code
HasCommentMarker(code) ==
    \/ Includes(code, "//")
    \/ Includes(code, "/*")
    \/ Includes(code, "#")

\* both tests; their values on the known code are written out (CodeTestsAgree)
DangerOf(code) ==
    CASE code = CodeGuard -> {}
      [] code = CodeClean -> {1}
      [] code = CodeWipe -> {1, 2}
      [] code = CodeHalt -> {1, 3, 4}
      [] OTHER -> DangerMatches(code)

CommentsIn(code) ==
    CASE code = CodeHalt -> TRUE
      [] code \in KnownCode \ { CodeHalt } -> FALSE
      [] OTHER -> HasCommentMarker(code)

CodeTestsAgree ==
    \A c \in KnownCode : DangerOf(c) = DangerMatches(c) /\ CommentsIn(c) = HasCommentMarker(c)

CodeLengths(codeBlocks) == [ i \in 1..Len(codeBlocks) |-> Len(codeBlocks[i].code) ]

\* a variant of scoreProposal whose safety is 10 - 3 * dangerCount, below 0 from
\* the fourth pattern on
scoreProposalUnclamped(response) ==
    LET proposal == response.proposal
        codeBlocks == response.codeBlocks
        confidence == response.confidence
        hasBlocks == Len(codeBlocks) > 0
        correctness == Min(10 * Unit, (IF hasBlocks THEN 5 * Unit ELSE 0) + confidence * 5)
        totalCodeLength == SumSeq(CodeLengths(codeBlocks))
        hasExplanation == (Len(proposal) - totalCodeLength) > 50
        completeness ==
            Min(10 * Unit,
                (IF hasBlocks THEN 4 * Unit ELSE 0)
                + (IF hasExplanation THEN 3 * Unit ELSE 0)
                + Min(3 * Unit, (Len(proposal) * Unit) \div 500))
        dangerCount ==
            Cardinality({ p \in DangerPatterns :
                \E b \in 1..Len(codeBlocks) : p \in DangerOf(codeBlocks[b].code) })
        safety == 10 * Unit - dangerCount * 3 * Unit
        hasComments == \E b \in 1..Len(codeBlocks) : CommentsIn(codeBlocks[b].code)
        style ==
            Min(10 * Unit,
                (IF hasComments THEN 4 * Unit ELSE 2 * Unit)
                + (IF hasBlocks THEN 3 * Unit ELSE 0)
                + Min(3 * Unit, confidence * 3))
        perf ==
            Min(10 * Unit,
                IF totalCodeLength > 0
                THEN Max(3 * Unit, 10 * Unit - (totalCodeLength \div 2000) * Unit)
                ELSE 5 * Unit)
    IN  [ correctness |-> correctness,
          completeness |-> completeness,
          safety |-> safety,
          style |-> style,
          performance |-> perf,
          total |-> correctness * WEIGHTS.correctness
                    + completeness * WEIGHTS.completeness
                    + safety * WEIGHTS.safety
                    + style * WEIGHTS.style
                    + perf * WEIGHTS.performance ]

scoreProposal(response) ==
    LET proposal == response.proposal
        codeBlocks == response.codeBlocks
        confidence == response.confidence
        hasBlocks == Len(codeBlocks) > 0
        correctness == Min(10 * Unit, (IF hasBlocks THEN 5 * Unit ELSE 0) + confidence * 5)
        totalCodeLength == SumSeq(CodeLengths(codeBlocks))
        hasExplanation == (Len(proposal) - totalCodeLength) > 50
        completeness ==
            Min(10 * Unit,
                (IF hasBlocks THEN 4 * Unit ELSE 0)
                + (IF hasExplanation THEN 3 * Unit ELSE 0)
                + Min(3 * Unit, (Len(proposal) * Unit) \div 500))
        dangerCount ==
            Cardinality({ p \in DangerPatterns :
                \E b \in 1..Len(codeBlocks) : p \in DangerOf(codeBlocks[b].code) })
        safety == Max(0, 10 * Unit - dangerCount * 3 * Unit)
        hasComments == \E b \in 1..Len(codeBlocks) : CommentsIn(codeBlocks[b].code)
        style ==
            Min(10 * Unit,
                (IF hasComments THEN 4 * Unit ELSE 2 * Unit)
                + (IF hasBlocks THEN 3 * Unit ELSE 0)
                + Min(3 * Unit, confidence * 3))
        perf ==
            Min(10 * Unit,
                IF totalCodeLength > 0
                THEN Max(3 * Unit, 10 * Unit - (totalCodeLength \div 2000) * Unit)
                ELSE 5 * Unit)
    IN  [ correctness |-> correctness,
          completeness |-> completeness,
          safety |-> safety,
          style |-> style,
          performance |-> perf,
          total |-> correctness * WEIGHTS.correctness
                    + completeness * WEIGHTS.completeness
                    + safety * WEIGHTS.safety
                    + style * WEIGHTS.style
                    + perf * WEIGHTS.performance ]

\* a variant of mergeProposals that appends the secondary explanation as soon
\* as it is the longer one
mergeProposalsAnyLonger(primary, secondary) ==
    LET primaryExplanation == extractExplanation(primary.proposal)
        secondaryExplanation == extractExplanation(secondary.proposal)
    IN  IF Len(secondaryExplanation) > Len(primaryExplanation)
        THEN primary.proposal \o "\n\n<!-- Additional insights from " \o secondary.model
                 \o " -->\n" \o secondaryExplanation
        ELSE primary.proposal

mergeProposals(primary, secondary) ==
    LET primaryExplanation == extractExplanation(primary.proposal)
        secondaryExplanation == extractExplanation(secondary.proposal)
    IN  IF 2 * Len(secondaryExplanation) > 3 * Len(primaryExplanation)
        THEN primary.proposal \o "\n\n<!-- Additional insights from " \o secondary.model
                 \o " -->\n" \o secondaryExplanation
        ELSE primary.proposal

\* normalizeTotal, on a total carried with the denominator AvgDen
normalizeTotal(total) == Min(ScoreUnit, Max(0, total))

\* the scores record after the loop "scores[r.model] = scoreProposal(r)": the
\* entry written last for a model is the one that stays
RECURSIVE ScoresOf(_)
ScoresOf(responses) ==
    IF Len(responses) = 0 THEN << >>
    ELSE LET r == responses[Len(responses)]
         IN  (r.model :> scoreProposal(r)) @@ ScoresOf(SubSeq(responses, 1, Len(responses) - 1))

\* a variant of InsertRanked that ranks by total ascending
InsertRankedAscending(sorted, r, scores) ==
    LET k == Cardinality({ i \in 1..Len(sorted) :
                 scores[sorted[i].model].total <= scores[r.model].total })
    IN  SubSeq(sorted, 1, k) \o << r >> \o SubSeq(sorted, k + 1, Len(sorted))

\* one step of the stable sort: r goes behind the elements it does not beat
InsertRanked(sorted, r, scores) ==
    LET k == Cardinality({ i \in 1..Len(sorted) :
                 scores[sorted[i].model].total >= scores[r.model].total })
    IN  SubSeq(sorted, 1, k) \o << r >> \o SubSeq(sorted, k + 1, Len(sorted))

\* [...responses].sort((a, b) => scores[b.model].total - scores[a.model].total)
RECURSIVE Ranked(_, _)
Ranked(responses, scores) ==
    IF responses = << >> THEN << >>
    ELSE Val({ InsertRanked(front, responses[Len(responses)], scores) :
                 front \in { Ranked(SubSeq(responses, 1, Len(responses) - 1), scores) } })

NoResult == [ mergeStrategy |-> "none" ]

NoResponsesToEvaluate == "No model responses to evaluate"

\* what runConsensus gives when it throws
Thrown(message) == [ mergeStrategy |-> "none", thrown |-> message ]

\* runConsensus on one response
SoleConsensus(sole, score) ==
    [ winnerModel |-> sole.model,
      mergeStrategy |-> "clear_winner",
      scores |-> (sole.model :> score),
      finalProposal |-> sole.proposal,
      modelsUsed |-> << sole.model >>,
      consensusScore |-> normalizeTotal(score.total * AvgDen),
      confidence |-> sole.confidence ]

\* runConsensus on two responses or more, from the scores and the ranking on
RankedConsensus(responses, scores, ranked) ==
    LET topScore == scores[ranked[1].model].total
        secondScore == scores[ranked[2].model].total
        gap == topScore - secondScore
        judge == IF \E i \in 1..Len(ranked) : ranked[i].model = "chatgpt"
                 THEN ranked[CHOOSE i \in 1..Len(ranked) :
                                 /\ ranked[i].model = "chatgpt"
                                 /\ \A j \in 1..(i - 1) : ranked[j].model # "chatgpt"]
                 ELSE ranked[1]
        half == (Len(ranked) + 1) \div 2
        topHalf == SubSeq(ranked, 1, half)
        sumScore == SumSeq(Map(topHalf, LAMBDA r : scores[r.model].total))
        modelsUsed == Map(responses, LAMBDA r : r.model)
        consensusScore == normalizeTotal((sumScore * AvgDen) \div half)
    IN  IF 2 * gap > 3 * TotalUnit
        THEN [ winnerModel |-> ranked[1].model,
               mergeStrategy |-> "clear_winner",
               scores |-> scores,
               finalProposal |-> ranked[1].proposal,
               modelsUsed |-> modelsUsed,
               consensusScore |-> consensusScore,
               confidence |-> ranked[1].confidence ]
        ELSE IF 2 * gap <= 3 * TotalUnit /\ gap >= 0
        THEN [ winnerModel |-> ranked[1].model,
               mergeStrategy |-> "merged",
               scores |-> scores,
               finalProposal |-> mergeProposals(ranked[1], ranked[2]),
               modelsUsed |-> modelsUsed,
               consensusScore |-> consensusScore,
               confidence |-> ranked[1].confidence ]
        ELSE [ winnerModel |-> judge.model,
               mergeStrategy |-> "judge_fallback",
               scores |-> scores,
               finalProposal |-> judge.proposal,
               modelsUsed |-> modelsUsed,
               consensusScore |-> consensusScore,
               confidence |-> ranked[1].confidence ]

runConsensus(responses) ==
    IF Len(responses) = 0 THEN Thrown(NoResponsesToEvaluate)
    ELSE IF Len(responses) = 1
    THEN Val({ SoleConsensus(responses[1], score) : score \in { scoreProposal(responses[1]) } })
    ELSE Val({ Val({ RankedConsensus(responses, scores, ranked) :
                       ranked \in { Ranked(responses, scores) } }) :
                 scores \in { ScoresOf(responses) } })

\* ------------------------------------------------------------------------
\* Orchestrator: critique round
\* ------------------------------------------------------------------------

\* the words of code (maximal runs of \w) longer than 3, from index i
RECURSIVE KeywordsFrom(_, _)
KeywordsFrom(code, i) ==
    LET a == SkipNonWord(code, i)
        e == SkipWord(code, a)
        w == SubSeq(code, a, e - 1)
    IN  IF a > Len(code) THEN << >>
        ELSE (IF Len(w) > 3 THEN << w >> ELSE << >>) \o KeywordsFrom(code, e)

ComputeKeywords(code) ==
    LET all == KeywordsFrom(code, 1)
    IN  SubSeq(all, 1, Min(50, Len(all)))

\* codeBlocks.map((b) => b.code).join('\n')
RECURSIVE JoinCode(_)
JoinCode(codeBlocks) ==
    IF codeBlocks = << >> THEN ""
    ELSE IF Len(codeBlocks) = 1 THEN codeBlocks[1].code
    ELSE codeBlocks[1].code \o "\n" \o JoinCode(Tail(codeBlocks))

\* extractKeywords; its value on the code of the known replies is written out
\* (KeywordsAgree)
extractKeywords(code) ==
    CASE code = CodeGuard -> << "items", "length", "return", "build" >>
      [] code = CodeClean -> << "build", "build" >>
      [] code = "" -> << >>
      [] OTHER -> ComputeKeywords(code)

KeywordsAgree == \A c \in KnownCode \cup { "" } : extractKeywords(c) = ComputeKeywords(c)

\* the written-out values are the computed ones
TablesAgree == RepliesAgree /\ ExplanationsAgree /\ CodeTestsAgree /\ KeywordsAgree

\* an entry of codeSignatures (the fields the round reads)
CodeSignature(r) ==
    [ model |-> r.model, keywords |-> extractKeywords(JoinCode(r.codeBlocks)) ]

\* mySignature.keywords.filter((k) => other.keywords.includes(k)).length
Overlap(mine, other) ==
    Cardinality({ k \in 1..Len(mine.keywords) :
        \E o \in 1..Len(other.keywords) : other.keywords[o] = mine.keywords[k] })

\* agreementCount of one response after the inner loop
AgreementCount(response, codeSignatures) ==
    LET \* codeSignatures.find((s) => s.model === response.model)
        mySignature ==
            codeSignatures[Least({ j \in 1..Len(codeSignatures) :
                                     codeSignatures[j].model = response.model })]
    IN  Cardinality({ j \in 1..Len(codeSignatures) :
            /\ codeSignatures[j].model # response.model
            /\ 10 * Overlap(mySignature, codeSignatures[j]) > 3 * Len(mySignature.keywords) })

\* the responses after runCritiqueRound: the confidences are moved, all else is kept
runCritiqueRound(responses) ==
    Val({ Map(responses, LAMBDA response :
                [ response EXCEPT
                    !.confidence =
                        Min(Unit, @ + (AgreementCount(response, codeSignatures) * 15 * Unit)
                                          \div (100 * (Len(codeSignatures) - 1))) ]) :
            codeSignatures \in { Map(responses, LAMBDA r : CodeSignature(r)) } })

\* ------------------------------------------------------------------------
\* Response Parser: classification of a segment, file name hints
\* ------------------------------------------------------------------------

\* the character of s at index i, "" beyond its ends
At(s, i) == IF i >= 1 /\ i <= Len(s) THEN CharAt(s, i) ELSE ""

\* s.split('\n'), from index i
RECURSIVE SplitFrom(_, _)
SplitFrom(s, i) ==
    LET a == IndexFrom(s, "\n", i)
    IN  IF a = 0 THEN << SubSeq(s, i, Len(s)) >>
        ELSE << SubSeq(s, i, a - 1) >> \o SplitFrom(s, a + 1)

SplitLines(s) == SplitFrom(s, 1)

\* lines.join('\n')
RECURSIVE JoinLines(_)
JoinLines(lines) ==
    IF Len(lines) = 0 THEN ""
    ELSE IF Len(lines) = 1 THEN lines[1]
    ELSE lines[1] \o "\n" \o JoinLines(Tail(lines))

\* detectDiff: the tag is diff, or a line starts with ---/+++ and a line with @@
detectDiff(code, language) ==
    \/ language = "diff"
    \/ \E lines \in { SplitLines(code) } :
           /\ \E i \in 1..Len(lines) :
                  StartsAt(lines[i], "---", 1) \/ StartsAt(lines[i], "+++", 1)
           /\ \E i \in 1..Len(lines) : StartsAt(lines[i], "@@", 1)

\* a CodeBlock as extractCodeBlocks builds it from a tag, a file name ("" when
\* the tag has none) and a body
Segment(language, filename, code) ==
    [ language |-> language, code |-> code, filename |-> filename,
      isDiff |-> detectDiff(code, language) ]

\* first index >= i holding a whitespace character (Len(s)+1 if none)
SkipNonSpace(s, i) ==
    LET stops == { j \in i..Len(s) : CharAt(s, j) \in Whitespace }
    IN  IF stops = {} THEN Max(i, Len(s) + 1) ELSE Least(stops)

\* one pattern of extractFilenameHint, /open\s*word\s*(\S+)/i, followed by
\* \s*close when close is not empty, tried at index i: the name captured, ""
\* when the pattern does not match there
HintMatchAt(code, open, word, close, i) ==
    LET j == SkipSpace(code, i + Len(open))
        k == SkipSpace(code, j + Len(word))
        e == SkipNonSpace(code, k)
        ends == IF close = "" THEN { e - 1 }
                ELSE { c \in k..(e - 1) : StartsAt(code, close, SkipSpace(code, c + 1)) }
    IN  IF /\ StartsAt(code, open, i)
           /\ StartsAtFold(code, word, j, TRUE)
           /\ e > k
           /\ ends # {}
        THEN SubSeq(code, k, Greatest(ends))
        ELSE ""

\* code.match(pattern): the name captured by the leftmost match, "" when none
HintMatch(code, open, word, close) ==
    LET hits == { i \in 1..Len(code) : HintMatchAt(code, open, word, close, i) # "" }
    IN  IF hits = {} THEN "" ELSE HintMatchAt(code, open, word, close, Least(hits))

\* extractFilenameHint: the first of the four patterns that matches ("" for
\* undefined)
extractFilenameHint(code) ==
    LET lineComment == HintMatch(code, "//", "filename:", "")
        lineFile == HintMatch(code, "//", "file:", "")
        hashComment == HintMatch(code, "#", "filename:", "")
        blockComment == HintMatch(code, "/*", "filename:", "*/")
    IN  IF lineComment # "" THEN lineComment
        ELSE IF lineFile # "" THEN lineFile
        ELSE IF hashComment # "" THEN hashComment
        ELSE blockComment

\* inferLanguage: the language guessed from the body of a block without tag
inferLanguage(code) ==
    IF Includes(code, "import React") \/ Includes(code, "from \"react\"") THEN "tsx"
    ELSE IF Includes(code, "export default") \/ Includes(code, "const ")
            \/ Includes(code, "function ") THEN "typescript"
    ELSE IF Includes(code, "def ") \/ Includes(code, "import ") \/ Includes(code, "class ")
    THEN "python"
    ELSE IF Includes(code, "#include") \/ Includes(code, "int main") THEN "cpp"
    ELSE "text"

\* the end of the tag (\w*(?::\S+)?) that starts at index i: the index behind it
SkipTag(s, i) ==
    LET wordEnd == SkipWord(s, i)
        nameEnd == SkipNonSpace(s, wordEnd + 1)
    IN  IF At(s, wordEnd) = ":" /\ nameEnd > wordEnd + 1 THEN nameEnd ELSE wordEnd

\* extractCodeBlocks: /FENCE(\w*(?::\S+)?)\s*\n([\s\S]*?)FENCE/g from index i
RECURSIVE extractCodeBlocksFrom(_, _)
extractCodeBlocksFrom(markdown, i) ==
    LET a == IndexFrom(markdown, FENCE, i)
        tagEnd == SkipTag(markdown, a + Len(FENCE))
        wsEnd == SkipSpace(markdown, tagEnd)
        nl == LastNewline(markdown, tagEnd, wsEnd - 1)
        close == IF nl = 0 THEN 0 ELSE IndexFrom(markdown, FENCE, nl + 1)
        langTag == SubSeq(markdown, a + Len(FENCE), tagEnd - 1)
        colon == IndexFrom(langTag, ":", 1)
        language == IF colon = 0 THEN langTag ELSE SubSeq(langTag, 1, colon - 1)
        filename == IF colon = 0 THEN "" ELSE SubSeq(langTag, colon + 1, Len(langTag))
        code == TrimEnd(SubSeq(markdown, nl + 1, close - 1))
    IN  IF a = 0 THEN << >>
        ELSE IF close = 0 THEN extractCodeBlocksFrom(markdown, a + 1)
        ELSE << [ language |-> IF language = "" THEN inferLanguage(code) ELSE language,
                  code |-> code,
                  filename |-> filename,
                  isDiff |-> detectDiff(code, language) ] >>
             \o extractCodeBlocksFrom(markdown, close + Len(FENCE))

extractCodeBlocks(markdown) == extractCodeBlocksFrom(markdown, 1)

\* ------------------------------------------------------------------------
\* Patch Engine
\* ------------------------------------------------------------------------

\* first index >= i that holds no digit (Len(s)+1 if none)
SkipDigits(s, i) ==
    LET stops == { j \in i..Len(s) :
                     CharAt(s, j) \notin { "0", "1", "2", "3", "4", "5", "6", "7", "8", "9" } }
    IN  IF stops = {} THEN Max(i, Len(s) + 1) ELSE Least(stops)

\* parseInt(digits, 10) of a run of digits
RECURSIVE ParseInt(_)
ParseInt(digits) ==
    IF Len(digits) = 0 THEN 0
    ELSE 10 * ParseInt(SubSeq(digits, 1, Len(digits) - 1))
         + (IndexFrom(DigitChars, CharAt(digits, Len(digits)), 1) - 1)

\* (?:,(\d+))? at index i: the index behind it (i when the group is skipped)
SkipCount(s, i) ==
    IF At(s, i) = "," /\ SkipDigits(s, i + 1) > i + 1 THEN SkipDigits(s, i + 1) ELSE i

\* line.match(/^@@\s*-(\d+)(?:,(\d+))?\s*\+(\d+)(?:,(\d+))?\s*@@/): << >> when
\* there is no match, else << startLine, oldCount >> as parsed (hunkMatch[2] || '1')
hunkMatch(line) ==
    LET minus == SkipSpace(line, 3)
        oldEnd == SkipDigits(line, minus + 1)
        oldCountEnd == SkipCount(line, oldEnd)
        plus == SkipSpace(line, oldCountEnd)
        newEnd == SkipDigits(line, plus + 1)
        close == SkipSpace(line, SkipCount(line, newEnd))
    IN  IF /\ StartsAt(line, "@@", 1)
           /\ At(line, minus) = "-"
           /\ oldEnd > minus + 1
           /\ At(line, plus) = "+"
           /\ newEnd > plus + 1
           /\ StartsAt(line, "@@", close)
        THEN << ParseInt(SubSeq(line, minus + 1, oldEnd - 1)),
                IF oldCountEnd > oldEnd
                THEN ParseInt(SubSeq(line, oldEnd + 1, oldCountEnd - 1))
                ELSE 1 >>
        ELSE << >>

\* the first index >= i of a line that starts with @@ (Len(lines)+1 if none)
NextHunkLine(lines, i) ==
    LET hits == { j \in i..Len(lines) : StartsAt(lines[j], "@@", 1) }
    IN  IF hits = {} THEN Max(i, Len(lines) + 1) ELSE Least(hits)

\* s.replace(/^b\//, '')
StripB(s) == IF StartsAt(s, "b/", 1) THEN SubSeq(s, 3, Len(s)) ELSE s

\* a variant of targetFileOf that takes the name on the "+++ " line as it is,
\* without the fallback for an empty one
targetFileOfNoFallback(lines, fallbackFile) ==
    LET heads == { j \in 1..(NextHunkLine(lines, 1) - 1) : StartsAt(lines[j], "+++ ", 1) }
        line == lines[Greatest(heads)]
    IN  IF heads = {} THEN fallbackFile
        ELSE Trim(StripB(SubSeq(line, 5, Len(line))))

\* targetFile after the header loop of parseDiffToEdits: set by the last line
\* starting with "+++ " before the first @@ line
targetFileOf(lines, fallbackFile) ==
    LET heads == { j \in 1..(NextHunkLine(lines, 1) - 1) : StartsAt(lines[j], "+++ ", 1) }
        line == lines[Greatest(heads)]
        name == Trim(StripB(SubSeq(line, 5, Len(line))))
    IN  IF heads = {} THEN fallbackFile
        ELSE IF name = "" THEN fallbackFile
        ELSE name

\* what one line of a hunk body adds to newLines: << text >>, or << >>
newLineOf(hLine) ==
    IF StartsAt(hLine, "-", 1) THEN << >>
    ELSE IF StartsAt(hLine, "+", 1) THEN << SubSeq(hLine, 2, Len(hLine)) >>
    ELSE IF StartsAt(hLine, " ", 1) THEN << SubSeq(hLine, 2, Len(hLine)) >>
    ELSE IF hLine = "" THEN << hLine >>
    ELSE << >>

\* newLines after the body lines i..(stop - 1)
RECURSIVE newLinesOf(_, _, _)
newLinesOf(lines, i, stop) ==
    IF i >= stop THEN << >>
    ELSE newLineOf(lines[i]) \o newLinesOf(lines, i + 1, stop)

\* linesConsumed after the body lines i..(stop - 1)
linesConsumedOf(lines, i, stop) ==
    Cardinality({ j \in i..(stop - 1) :
        \/ StartsAt(lines[j], "-", 1)
        \/ StartsAt(lines[j], " ", 1)
        \/ lines[j] = "" })

\* a variant of hunkEdit that ends the range after the old lines the body consumed
hunkEditConsumed(targetFile, startLine, oldCount, linesConsumed, newLines) ==
    [ file |-> targetFile,
      range |-> [ startLine |-> startLine - 1, startChar |-> 0,
                  endLine |-> startLine - 1 + linesConsumed, endChar |-> 0 ],
      newText |-> JoinLines(newLines),
      action |-> "replace" ]

\* the Edit pushed for one hunk (linesConsumed is counted and not used)
hunkEdit(targetFile, startLine, oldCount, linesConsumed, newLines) ==
    [ file |-> targetFile,
      range |-> [ startLine |-> startLine - 1, startChar |-> 0,
                  endLine |-> startLine - 1 + oldCount, endChar |-> 0 ],
      newText |-> JoinLines(newLines),
      action |-> "replace" ]

\* a variant of parseHunksFrom that gives up at a line that starts with @@ and
\* is no hunk header, instead of passing over it
RECURSIVE parseHunksFromStrict(_, _, _)
parseHunksFromStrict(lines, i, targetFile) ==
    IF i > Len(lines) THEN << >>
    ELSE Val({ IF m = << >>
               THEN << >>
               ELSE Val({ << hunkEdit(targetFile, m[1], m[2],
                                      linesConsumedOf(lines, i + 1, stop),
                                      newLinesOf(lines, i + 1, stop)) >>
                          \o parseHunksFromStrict(lines, stop, targetFile) :
                            stop \in { NextHunkLine(lines, i + 1) } }) :
                 m \in { hunkMatch(lines[i]) } })

\* the hunk loop of parseDiffToEdits from line i on
RECURSIVE parseHunksFrom(_, _, _)
parseHunksFrom(lines, i, targetFile) ==
    IF i > Len(lines) THEN << >>
    ELSE Val({ IF m = << >>
               THEN parseHunksFrom(lines, i + 1, targetFile)
               ELSE Val({ << hunkEdit(targetFile, m[1], m[2],
                                      linesConsumedOf(lines, i + 1, stop),
                                      newLinesOf(lines, i + 1, stop)) >>
                          \o parseHunksFrom(lines, stop, targetFile) :
                            stop \in { NextHunkLine(lines, i + 1) } }) :
                 m \in { hunkMatch(lines[i]) } })

parseDiffToEdits(block, fallbackFile) ==
    Val({ parseHunksFrom(lines, NextHunkLine(lines, 1), targetFileOf(lines, fallbackFile)) :
            lines \in { SplitLines(block.code) } })

\* the body of the loop of buildEdits: the edits pushed for one block
buildEditsOfBlock(block, currentFile, selectionRange) ==
    IF block.isDiff THEN parseDiffToEdits(block, currentFile)
    ELSE LET hint == extractFilenameHint(block.code)
             filename == IF block.filename # "" THEN block.filename
                         ELSE IF hint # "" THEN hint
                         ELSE currentFile
             isNewFile == block.filename # "" /\ block.filename # currentFile
         IN  IF isNewFile
             THEN << [ file |-> filename, newText |-> block.code, action |-> "create" ] >>
             ELSE IF selectionRange # << >>
             THEN << [ file |-> filename, range |-> selectionRange[1],
                       newText |-> block.code, action |-> "replace" ] >>
             ELSE << [ file |-> filename, newText |-> block.code, action |-> "full" ] >>

RECURSIVE buildEdits(_, _, _)
buildEdits(codeBlocks, currentFile, selectionRange) ==
    IF Len(codeBlocks) = 0 THEN << >>
    ELSE buildEditsOfBlock(Head(codeBlocks), currentFile, selectionRange)
         \o buildEdits(Tail(codeBlocks), currentFile, selectionRange)

\* runConsensus, the edits of its result: those of the sole response's own
\* blocks, else those of the blocks extracted from the final text, or of the
\* top-ranked response's blocks when the final text has none
consensusEdits(responses, consensus, currentFile, selectionRange) ==
    IF Len(responses) = 1
    THEN buildEdits(responses[1].codeBlocks, currentFile, selectionRange)
    ELSE Val({ buildEdits(IF Len(finalBlocks) > 0
                          THEN finalBlocks
                          ELSE Ranked(responses, consensus.scores)[1].codeBlocks,
                          currentFile, selectionRange) :
                 finalBlocks \in { extractCodeBlocks(consensus.finalProposal) } })

\* ------------------------------------------------------------------------
\* Orchestrator: state
\* ------------------------------------------------------------------------

\* ModelName (part of ALL_MODELS)
ModelNames == { "chatgpt", "claude", "gemini" }

\* the names a controller exists for; the other names can only be asked for
Controllers == { "chatgpt", "claude" }

VARIABLES
    controllers,    \* the registry: registered names in insertion order (Map keys)
    config,         \* OrchestratorConfig
    pc,             \* the run() call: "none", "dispatching", "returned" or "threw"
    enabledModels,  \* argument of that run(): a sequence, or Absent
    modelsToUse,    \* its resolved list
    calls,          \* its askWithTimeout calls, in list order
    responses,      \* the responses it handed to runConsensus
    result,         \* the ConsensusResult it returned, or NoResult
    error,          \* the message of the error it threw, or ""
    firstCompleted, \* the call of this run whose ask() settled first (0: none has)
    lateAsks        \* ask() calls of earlier runs still in flight

\* a call of the Patch Engine made on its own
VARIABLES
    patchCall,      \* the arguments of buildEdits: codeBlocks, currentFile and
                    \* selectionRange (<< >> when left out, else << range >>)
    edits           \* what buildEdits returned, or NotBuilt

patchVars == << patchCall, edits >>

\* the bridge server's handler of one message of a connection
VARIABLES
    server          \* state: "idle", "running" (awaiting orchestrator.run),
                    \* "returned" or "rejected"; request: the message; sent: the
                    \* responses sent for it

\* a BridgeClient
VARIABLES
    ws,             \* the socket it holds (0: null), an index of sockets
    sockets,        \* the WebSockets it created: readyState and whether the
                    \* client's listeners are on it
    connected,      \* its connected flag
    reconnectTimer, \* the reconnect timers pending
    pending,        \* the keys of its pending map: the requests with an entry
    requests,       \* the request() calls made, in order, and their promises
    closedByCaller  \* disconnect() was called, and neither connect() nor
                    \* request() has been called by the caller since

serverVars == << server >>

clientVars == << ws, sockets, connected, reconnectTimer, pending, requests, closedByCaller >>

bridgeVars == << serverVars, clientVars >>

orchestratorVars ==
    << controllers, config, pc, enabledModels, modelsToUse, calls,
       responses, result, error, firstCompleted, lateAsks >>

vars == << orchestratorVars, patchVars, bridgeVars >>

\* enabledModels left out of the call
Absent == << "absent" >>

\* the error messages of run()
NoModelsAvailable == "No models available. Register at least one controller."
AllModelsFailed == "All models failed to respond."

SeqsUpTo(S, n) == UNION { [ 1..k -> S ] : k \in 0..n }

\* what run() can be given as enabledModels
EnabledInputs == { Absent } \cup SeqsUpTo(ModelNames, MaxEnabled)

InSeq(q, x) == \E i \in 1..Len(q) : q[i] = x

\* ------------------------------------------------------------------------
\* Orchestrator: operations
\* ------------------------------------------------------------------------

\* a variant of resolveModels that falls back to the registry when no enabled
\* name is registered
resolveModelsFallback(registered, enabled) ==
    IF enabled # Absent /\ SelectSeq(enabled, LAMBDA m : InSeq(registered, m)) # << >>
    THEN SelectSeq(enabled, LAMBDA m : InSeq(registered, m))
    ELSE registered

resolveModels(registered, enabled) ==
    IF enabled # Absent /\ Len(enabled) > 0
    THEN SelectSeq(enabled, LAMBDA m : InSeq(registered, m))
    ELSE registered

\* a variant of askWithTimeout that awaits ask() alone, with no timer
askWithTimeoutNoTimer(registered, ready, modelName) ==
    IF ~InSeq(registered, modelName) \/ modelName \notin ready
    THEN [ model |-> modelName, ask |-> "none", timer |-> "none",
           status |-> "fulfilled", value |-> 0 ]
    ELSE [ model |-> modelName, ask |-> "inflight", timer |-> "none",
           status |-> "pending", value |-> 0 ]

\* askWithTimeout up to its first suspension: the lookup, isReady(), then ask()
\* issued and the timer armed.  A call that returns null is fulfilled with value 0.
askWithTimeout(registered, ready, modelName) ==
    IF ~InSeq(registered, modelName) \/ modelName \notin ready
    THEN [ model |-> modelName, ask |-> "none", timer |-> "none",
           status |-> "fulfilled", value |-> 0 ]
    ELSE [ model |-> modelName, ask |-> "inflight", timer |-> "armed",
           status |-> "pending", value |-> 0 ]

\* a variant of startCalls that asks one participant at a time: the calls behind
\* the first one that is awaited have not been started
startCallsSequential(registered, ready, models) ==
    [ i \in 1..Len(models) |->
        IF \E j \in 1..(i - 1) : InSeq(registered, models[j]) /\ models[j] \in ready
        THEN [ model |-> models[i], ask |-> "none", timer |-> "none",
               status |-> "pending", value |-> 0 ]
        ELSE askWithTimeout(registered, ready, models[i]) ]

\* models.map((modelName) => this.askWithTimeout(modelName, prompt)): every call
\* runs to its first suspension before the next one starts, and before the await
startCalls(registered, ready, models) ==
    [ i \in 1..Len(models) |-> askWithTimeout(registered, ready, models[i]) ]

\* a variant of race in which the last settlement stands
raceLastWins(call, status, value) == [ call EXCEPT !.status = status, !.value = value ]

\* Promise.race: the first settlement stands
race(call, status, value) ==
    IF call.status = "pending"
    THEN [ call EXCEPT !.status = status, !.value = value ]
    ELSE call

\* Promise.allSettled has resolved
Settled(results) == \A i \in 1..Len(results) : results[i].status # "pending"

\* q reversed
Reverse(q) == << >> \o [ i \in 1..Len(q) |-> q[Len(q) + 1 - i] ]

\* a variant of dispatchParallel that puts each response in front (unshift)
dispatchParallelUnshift(results) ==
    Reverse(Map(SelectSeq(results, LAMBDA r : r.status = "fulfilled" /\ r.value # 0),
                LAMBDA r : ResponseOf(r.model, r.value)))

\* a variant of dispatchParallel that gives up at the first failed result
dispatchParallelFailFast(results) ==
    IF \E i \in 1..Len(results) : ~(results[i].status = "fulfilled" /\ results[i].value # 0)
    THEN << >>
    ELSE Map(results, LAMBDA r : ResponseOf(r.model, r.value))

\* dispatchParallel after allSettled: the fulfilled, non-null results in list order
dispatchParallel(results) ==
    Map(SelectSeq(results, LAMBDA r : r.status = "fulfilled" /\ r.value # 0),
        LAMBDA r : ResponseOf(r.model, r.value))

\* a variant of critiqueAndConsensus that runs the critique round after
\* runConsensus has scored
critiqueAndConsensusLate(collected, cfg) ==
    Val({ [ responses |-> IF cfg.enableCritique /\ Len(collected) > 1
                          THEN runCritiqueRound(collected)
                          ELSE collected,
            result |-> consensus,
            error |-> "" ] :
            consensus \in { runConsensus(collected) } })

\* run() from the critique round on: the round when enabled and there are two
\* responses or more, then runConsensus
critiqueAndConsensus(collected, cfg) ==
    Val({ Val({ \* an error thrown by runConsensus leaves run() as it is
                IF "thrown" \in DOMAIN consensus
                THEN [ responses |-> reviewed, result |-> NoResult, error |-> consensus.thrown ]
                ELSE [ responses |-> reviewed, result |-> consensus, error |-> "" ] :
                  consensus \in { runConsensus(reviewed) } }) :
            reviewed \in { IF cfg.enableCritique /\ Len(collected) > 1
                            THEN runCritiqueRound(collected)
                            ELSE collected } })

\* a variant of runAfterDispatch without the test for no response
runAfterDispatchUnchecked(collected, cfg) == critiqueAndConsensus(collected, cfg)

\* run() after dispatchParallel: the throw on no response, else the critique
\* round and runConsensus
runAfterDispatch(collected, cfg) ==
    IF Len(collected) = 0
    THEN [ responses |-> collected, result |-> NoResult, error |-> AllModelsFailed ]
    ELSE critiqueAndConsensus(collected, cfg)

\* the continuation of run() once every call of newCalls has settled
Continue(newCalls) ==
    IF Settled(newCalls)
    THEN \E collected \in { dispatchParallel(newCalls) } :
         \E out \in { runAfterDispatch(collected, config) } :
             /\ pc' = IF out.error = "" THEN "returned" ELSE "threw"
             /\ responses' = out.responses
             /\ result' = out.result
             /\ error' = out.error
    ELSE /\ pc' = "dispatching"
         /\ responses' = << >>
         /\ result' = NoResult
         /\ error' = ""

Count(q, Test(_)) == Cardinality({ i \in 1..Len(q) : Test(q[i]) })

\* OrchestratorConfig: what the constructor can be given (the default enables
\* the critique round); minResponses as in DEFAULT_CONFIG and in the server
Configs == { [ enableCritique |-> b, minResponses |-> 1 ] : b \in BOOLEAN }

\* the highest minResponses a constructor is given
MaxMinResponses == 2

\* OrchestratorConfig with a minResponses of the caller's choice
MinimumConfigs ==
    { [ enableCritique |-> b, minResponses |-> n ] : b \in BOOLEAN, n \in 1..MaxMinResponses }

\* buildEdits has not been called
NotBuilt == << [ action |-> "none" ] >>

\* no call of the Patch Engine on its own is on record
NoPatchCall ==
    /\ patchCall = [ codeBlocks |-> << >>, currentFile |-> "unknown", selectionRange |-> << >> ]
    /\ edits = NotBuilt

\* no message has reached the bridge server
NoMessage == server = [ state |-> "idle", request |-> << >>, sent |-> << >> ]

\* a new BridgeClient
NewBridgeClient ==
    /\ ws = 0
    /\ sockets = << >>
    /\ connected = FALSE
    /\ reconnectTimer = 0
    /\ pending = {}
    /\ requests = << >>
    /\ closedByCaller = FALSE

\* neither the server nor a client is part of the run
NoBridge == NoMessage /\ NewBridgeClient

\* a new Orchestrator: nothing registered, no run() made
NewOrchestrator ==
    /\ controllers = << >>
    /\ config \in Configs
    /\ pc = "none"
    /\ enabledModels = Absent
    /\ modelsToUse = << >>
    /\ calls = << >>
    /\ responses = << >>
    /\ result = NoResult
    /\ error = ""
    /\ firstCompleted = 0
    /\ lateAsks = 0

Init ==
    /\ TablesAgree
    /\ NewOrchestrator
    /\ NoPatchCall
    /\ NoBridge

\* registerController: Map.set keeps the place of a key already present.
\* The registry is changed between runs.
registerController(name) ==
    /\ pc = "none"
    /\ controllers' = IF InSeq(controllers, name) THEN controllers ELSE Append(controllers, name)
    /\ UNCHANGED << config, pc, enabledModels, modelsToUse, calls,
                    responses, result, error, firstCompleted, lateAsks, patchVars, bridgeVars >>

removeController(name) ==
    /\ pc = "none"
    /\ controllers' = SelectSeq(controllers, LAMBDA m : m # name)
    /\ UNCHANGED << config, pc, enabledModels, modelsToUse, calls,
                    responses, result, error, firstCompleted, lateAsks, patchVars, bridgeVars >>

\* run(prompt, enabled): resolution, the throw on an empty list, else every
\* askWithTimeout started in list order; ready is what isReady() answers
Run(enabled, ready) ==
    /\ pc = "none"
    /\ enabledModels' = enabled
    /\ modelsToUse' = resolveModels(controllers, enabled)
    /\ IF Len(modelsToUse') = 0
       THEN /\ calls' = << >>
            /\ pc' = "threw"
            /\ responses' = << >>
            /\ result' = NoResult
            /\ error' = NoModelsAvailable
       ELSE /\ calls' = startCalls(controllers, ready, modelsToUse')
            /\ Continue(calls')
    /\ firstCompleted' = 0
    /\ UNCHANGED << controllers, config, lateAsks, patchVars, bridgeVars >>

\* the caller is done with the settled run(): its ask() calls still in flight
\* stay in flight, its timers still armed can only log
Release ==
    /\ pc \in { "returned", "threw" }
    /\ lateAsks + Count(calls, LAMBDA c : c.ask = "inflight") <= MaxLate
    /\ lateAsks' = lateAsks + Count(calls, LAMBDA c : c.ask = "inflight")
    /\ pc' = "none"
    /\ enabledModels' = Absent
    /\ modelsToUse' = << >>
    /\ calls' = << >>
    /\ responses' = << >>
    /\ result' = NoResult
    /\ error' = ""
    /\ firstCompleted' = 0
    /\ UNCHANGED << controllers, config, patchVars, bridgeVars >>

\* call i, advanced to c, settles with (status, value) unless it settled before;
\* the settlement reaches run() only while it awaits dispatchParallel
Settle(i, c, status, value) ==
    /\ calls' = [ calls EXCEPT ![i] = race(c, status, value) ]
    /\ IF pc = "dispatching"
       THEN Continue(calls')
       ELSE UNCHANGED << pc, responses, result, error >>

\* controller.ask() of call i resolves with reply k
AskResolve(i, k) ==
    /\ i \in 1..Len(calls)
    /\ calls[i].ask = "inflight"
    /\ Settle(i, [ calls[i] EXCEPT !.ask = "resolved" ], "fulfilled", k)
    /\ firstCompleted' = IF firstCompleted = 0 THEN i ELSE firstCompleted
    /\ UNCHANGED << controllers, config, enabledModels, modelsToUse, lateAsks, patchVars, bridgeVars >>

\* controller.ask() of call i rejects
AskReject(i) ==
    /\ i \in 1..Len(calls)
    /\ calls[i].ask = "inflight"
    /\ Settle(i, [ calls[i] EXCEPT !.ask = "rejected" ], "rejected", 0)
    /\ firstCompleted' = IF firstCompleted = 0 THEN i ELSE firstCompleted
    /\ UNCHANGED << controllers, config, enabledModels, modelsToUse, lateAsks, patchVars, bridgeVars >>

\* the timer of call i fires: resolve(null)
TimerFire(i) ==
    /\ i \in 1..Len(calls)
    /\ calls[i].timer = "armed"
    /\ Settle(i, [ calls[i] EXCEPT !.timer = "fired" ], "fulfilled", 0)
    /\ UNCHANGED << controllers, config, enabledModels, modelsToUse, firstCompleted, lateAsks, patchVars, bridgeVars >>

\* an ask() of an earlier run settles: its race belongs to a run that is over
LateAskSettle ==
    /\ lateAsks > 0
    /\ lateAsks' = lateAsks - 1
    /\ UNCHANGED << controllers, config, pc, enabledModels, modelsToUse, calls,
                    responses, result, error, firstCompleted, patchVars, bridgeVars >>

Next ==
    \/ \E name \in Controllers : registerController(name)
    \/ \E name \in Controllers : removeController(name)
    \/ \E enabled \in EnabledInputs, ready \in SUBSET Controllers : Run(enabled, ready)
    \/ Release
    \/ \E i \in 1..Len(calls), k \in ReplyIds : AskResolve(i, k)
    \/ \E i \in 1..Len(calls) : AskReject(i)
    \/ \E i \in 1..Len(calls) : TimerFire(i)
    \/ LateAskSettle

Spec == Init /\ [][Next]_vars

\* One run() of an orchestrator, from any registry, up to its settlement: Next
\* without Release and without the asks of earlier runs, which touch nothing a
\* run reads
OneRunNext ==
    \/ \E name \in Controllers : registerController(name)
    \/ \E name \in Controllers : removeController(name)
    \/ \E enabled \in EnabledInputs, ready \in SUBSET Controllers : Run(enabled, ready)
    \/ \E i \in 1..Len(calls), k \in ReplyIds : AskResolve(i, k)
    \/ \E i \in 1..Len(calls) : AskReject(i)
    \/ \E i \in 1..Len(calls) : TimerFire(i)

\* The server's orchestrator with one controller registered at start and left
\* registered: run after run, every ask() is made on that controller
OneControllerInit ==
    /\ TablesAgree
    /\ controllers \in { << name >> : name \in Controllers }
    /\ config \in Configs
    /\ pc = "none"
    /\ enabledModels = Absent
    /\ modelsToUse = << >>
    /\ calls = << >>
    /\ responses = << >>
    /\ result = NoResult
    /\ error = ""
    /\ firstCompleted = 0
    /\ lateAsks = 0
    /\ NoPatchCall
    /\ NoBridge

OneControllerNext ==
    \/ \E enabled \in EnabledInputs, ready \in SUBSET Controllers : Run(enabled, ready)
    \/ Release
    \/ \E i \in 1..Len(calls), k \in ReplyIds : AskResolve(i, k)
    \/ \E i \in 1..Len(calls) : AskReject(i)
    \/ \E i \in 1..Len(calls) : TimerFire(i)
    \/ LateAskSettle

OneControllerSpec == OneControllerInit /\ [][OneControllerNext]_vars

\* One run() of an orchestrator constructed with a minResponses of its own
MinimumInit ==
    /\ TablesAgree
    /\ controllers = << >>
    /\ config \in MinimumConfigs
    /\ pc = "none"
    /\ enabledModels = Absent
    /\ modelsToUse = << >>
    /\ calls = << >>
    /\ responses = << >>
    /\ result = NoResult
    /\ error = ""
    /\ firstCompleted = 0
    /\ lateAsks = 0
    /\ NoPatchCall
    /\ NoBridge

MinimumSpec == MinimumInit /\ [][OneRunNext]_vars

\* that run with the scheduling of timers: while timers armed by setTimeout are
\* waiting, one of them fires.  Nothing is assumed of ask(): it may never settle.
OneRunSpec == Init /\ [][OneRunNext]_vars /\ WF_vars(\E i \in 1..Len(calls) : TimerFire(i))

\* ------------------------------------------------------------------------
\* Bridge Server: the handler of a connection's messages
\* ------------------------------------------------------------------------

ALL_MODELS == << "chatgpt", "claude", "gemini", "deepseek", "qwen", "kimi" >>

\* what a field that is not there reads as
Undefined == "undefined"

RequestIds == { "req_1", "req_2" }

\* the orchestrator the server constructs
ServerConfig == [ enableCritique |-> TRUE, minResponses |-> 1 ]

InvalidJsonMessage == "Invalid JSON message"
NoModelsConnected ==
    "No AI models are connected. Start the automation controllers first.\nRun: cd automation && npm run start -- --model chatgpt"
NotAFunction == "ctx.openFiles.join is not a function"

\* The messages a connection delivers.  json: the text is not JSON
\* ("malformed"), is the JSON null, is JSON that is no object with fields
\* ("scalar": a number, a string, an array), or is an object; context: "broken"
\* is a context whose openFiles is a string
BridgeMessages ==
    { [ json |-> j, id |-> Undefined, type |-> Undefined, enabledModels |-> Absent,
        context |-> "none" ] : j \in { "malformed", "null", "scalar" } }
    \cup
    { [ json |-> "object", id |-> i, type |-> t, enabledModels |-> e, context |-> c ] :
        i \in RequestIds, t \in { "ping", "ask", "create", "merge" },
        e \in { Absent, << "claude" >> }, c \in { "none", "broken" } }

\* sendError(ws, id, message): the response it sends
sendError(id, text) == [ id |-> id, success |-> FALSE, error |-> text ]

\* buildPrompt(request) throws: join is called on a string
buildPromptThrows(request) == request.context = "broken"

\* the server's handler has returned after sending the responses of sent
Returned(request, sent) == [ state |-> "returned", request |-> request, sent |-> sent ]

\* ws.on('message'): the handler up to its return, its rejection or its await
\* of orchestrator.run().  JSON.parse throws on text that is not JSON; the
\* log line between the two try blocks reads request.type, a TypeError when
\* request is null; handleRequest answers ping and unknown types at once;
\* handleAIRequest builds the prompt (a throw reaches the handler's catch),
\* answers at once with an empty registry, else calls run()
HandleMessage(msg) ==
    /\ server.state # "running"
    /\ IF msg.json = "malformed"
       THEN server' = Returned(msg, << sendError("unknown", InvalidJsonMessage) >>)
       ELSE IF msg.json = "null"
       THEN server' = [ state |-> "rejected", request |-> msg, sent |-> << >> ]
       ELSE IF msg.type = "ping"
       THEN server' = Returned(msg, << [ id |-> msg.id, success |-> TRUE, explanation |-> "pong" ] >>)
       ELSE IF msg.type \notin { "ask", "edit", "create" }
       THEN server' = Returned(msg, << [ id |-> msg.id, success |-> FALSE,
                                         error |-> "Unknown request type: " \o msg.type ] >>)
       ELSE IF buildPromptThrows(msg)
       THEN server' = Returned(msg, << sendError(msg.id, NotAFunction) >>)
       ELSE IF Len(controllers) = 0
       THEN server' = Returned(msg, << [ id |-> msg.id, success |-> FALSE,
                                         error |-> NoModelsConnected ] >>)
       ELSE /\ pc = "none"
            /\ server' = [ state |-> "running", request |-> msg, sent |-> << >> ]
    /\ UNCHANGED << orchestratorVars, patchVars, clientVars >>

\* handleAIRequest calls orchestrator.run(prompt, enabledModels, ...) with
\* request.enabledModels || ALL_MODELS
ServerRun(ready) ==
    /\ server.state = "running"
    /\ Run(IF server.request.enabledModels = Absent THEN ALL_MODELS
           ELSE server.request.enabledModels, ready)

\* the response handleAIRequest returns once run() has settled
AIResponse(request) ==
    IF pc = "returned"
    THEN [ id |-> request.id,
           success |-> TRUE,
           edits |-> consensusEdits(responses, result, "unknown", << >>),
           explanation |-> extractExplanation(result.finalProposal),
           consensus |-> [ winnerModel |-> result.winnerModel,
                           mergeStrategy |-> result.mergeStrategy ] ]
    ELSE [ id |-> request.id, success |-> FALSE, error |-> "Orchestrator error: " \o error ]

\* run() has settled: the handler sends handleAIRequest's response and returns
Respond ==
    /\ server.state = "running"
    /\ pc \in { "returned", "threw" }
    /\ server' = Returned(server.request, << AIResponse(server.request) >>)
    /\ UNCHANGED << orchestratorVars, patchVars, clientVars >>

\* The server with its orchestrator: controllers come and go between
\* messages, and the messages of a connection are handled up to the first that
\* reaches run()
ServerInit ==
    /\ TablesAgree
    /\ controllers = << >>
    /\ config = ServerConfig
    /\ pc = "none"
    /\ enabledModels = Absent
    /\ modelsToUse = << >>
    /\ calls = << >>
    /\ responses = << >>
    /\ result = NoResult
    /\ error = ""
    /\ firstCompleted = 0
    /\ lateAsks = 0
    /\ NoPatchCall
    /\ NoBridge

ServerNext ==
    \/ \E name \in Controllers : server.state # "running" /\ registerController(name)
    \/ \E name \in Controllers : server.state # "running" /\ removeController(name)
    \/ \E msg \in BridgeMessages : HandleMessage(msg)
    \/ \E ready \in SUBSET Controllers : ServerRun(ready)
    \/ \E i \in 1..Len(calls), k \in ReplyIds : AskResolve(i, k)
    \/ \E i \in 1..Len(calls) : AskReject(i)
    \/ \E i \in 1..Len(calls) : TimerFire(i)
    \/ Respond

ServerSpec == ServerInit /\ [][ServerNext]_vars

\* ------------------------------------------------------------------------
\* Bridge Client
\* ------------------------------------------------------------------------

\* WebSockets one client creates
MaxSockets == 3

\* request() calls made on one client
MaxRequests == 2

\* ws.close(): an open or connecting socket starts closing
closeSocket(state) == IF state \in { "connecting", "open" } THEN "closing" ELSE state

\* connect(): the listeners are taken off the socket held and it is closed; a
\* new socket, with the four listeners, takes its place
connect ==
    /\ Len(sockets) < MaxSockets
    /\ sockets' = Append(IF ws = 0 THEN sockets
                         ELSE [ sockets EXCEPT ![ws] = [ state |-> closeSocket(@.state),
                                                         listening |-> FALSE ] ],
                         [ state |-> "connecting", listening |-> TRUE ])
    /\ ws' = Len(sockets) + 1

\* scheduleReconnect(): the reconnect timers pending after it, of timers before
scheduleReconnect(timers) == IF timers > 0 THEN timers ELSE timers + 1

\* this.ws!.send(text): it is sent on an open socket; it throws on a
\* connecting socket and on null; on a closing or closed socket it is dropped
\* or it throws, as the version of the ws package has it
SendOutcomes ==
    IF ws = 0 THEN { "throws" }
    ELSE IF sockets[ws].state = "open" THEN { "sent" }
    ELSE IF sockets[ws].state = "connecting" THEN { "throws" }
    ELSE { "dropped", "throws" }

\* the request whose promise executor has run with that outcome of send: the
\* timer is armed and the entry set before send, a throw rejects the promise
Promised(outcome) ==
    [ state |-> IF outcome = "throws" THEN "rejected" ELSE "pending",
      cause |-> IF outcome = "throws" THEN "send" ELSE "none",
      timer |-> "armed",
      socket |-> IF outcome = "sent" THEN ws ELSE 0 ]

\* the caller calls connect()
Connect ==
    /\ connect
    /\ closedByCaller' = FALSE
    /\ UNCHANGED << connected, reconnectTimer, pending, requests,
                    orchestratorVars, patchVars, serverVars >>

\* the caller calls request(message), message.id unused before (nextId): with
\* no socket or not connected, connect() and the wait of one second; else the
\* promise
Request ==
    /\ Len(requests) < MaxRequests
    /\ closedByCaller' = FALSE
    /\ IF ws = 0 \/ ~connected
       THEN /\ connect
            /\ requests' = Append(requests, [ state |-> "waiting", cause |-> "none",
                                              timer |-> "none", socket |-> 0 ])
            /\ UNCHANGED pending
       ELSE /\ \E outcome \in SendOutcomes : requests' = Append(requests, Promised(outcome))
            /\ pending' = pending \cup { Len(requests) + 1 }
            /\ UNCHANGED << ws, sockets >>
    /\ UNCHANGED << connected, reconnectTimer, orchestratorVars, patchVars, serverVars >>

\* the second of request k is over: the throw when not connected, else the promise
WaitOver(k) ==
    /\ k \in 1..Len(requests)
    /\ requests[k].state = "waiting"
    /\ IF ~connected
       THEN /\ requests' = [ requests EXCEPT ![k].state = "rejected", ![k].cause = "unavailable" ]
            /\ UNCHANGED pending
       ELSE /\ \E outcome \in SendOutcomes : requests' = [ requests EXCEPT ![k] = Promised(outcome) ]
            /\ pending' = pending \cup { k }
    /\ UNCHANGED << ws, sockets, connected, reconnectTimer, closedByCaller,
                    orchestratorVars, patchVars, serverVars >>

\* the timer of request k fires: pending.delete and reject, which has no
\* effect on a settled promise
RequestTimeout(k) ==
    /\ k \in 1..Len(requests)
    /\ requests[k].timer = "armed"
    /\ pending' = pending \ { k }
    /\ requests' = [ requests EXCEPT
                       ![k].timer = "fired",
                       ![k].state = IF @ = "pending" THEN "rejected" ELSE @,
                       ![k].cause = IF requests[k].state = "pending" THEN "timeout" ELSE @ ]
    /\ UNCHANGED << ws, sockets, connected, reconnectTimer, closedByCaller,
                    orchestratorVars, patchVars, serverVars >>

\* socket s opens
SocketOpen(s) ==
    /\ s \in 1..Len(sockets)
    /\ sockets[s].state = "connecting"
    /\ sockets' = [ sockets EXCEPT ![s].state = "open" ]
    /\ connected' = IF sockets[s].listening THEN TRUE ELSE connected
    /\ UNCHANGED << ws, reconnectTimer, pending, requests, closedByCaller,
                    orchestratorVars, patchVars, serverVars >>

\* socket s emits 'error' and goes on to close
SocketError(s) ==
    /\ s \in 1..Len(sockets)
    /\ sockets[s].state = "open"
    /\ sockets' = [ sockets EXCEPT ![s].state = "closing" ]
    /\ connected' = IF sockets[s].listening THEN FALSE ELSE connected
    /\ UNCHANGED << ws, reconnectTimer, pending, requests, closedByCaller,
                    orchestratorVars, patchVars, serverVars >>

\* socket s emits 'close': the connection failed, the server closed it, or the
\* close the client asked for is done
SocketClose(s) ==
    /\ s \in 1..Len(sockets)
    /\ sockets[s].state # "closed"
    /\ sockets' = [ sockets EXCEPT ![s].state = "closed" ]
    /\ connected' = IF sockets[s].listening THEN FALSE ELSE connected
    /\ reconnectTimer' = IF sockets[s].listening THEN scheduleReconnect(reconnectTimer)
                         ELSE reconnectTimer
    /\ UNCHANGED << ws, pending, requests, closedByCaller,
                    orchestratorVars, patchVars, serverVars >>

\* a message of id k arrives on socket s, which has the listeners: the
\* response to a request sent on s, or of an id no request has (0)
SocketMessage(s, k) ==
    /\ s \in 1..Len(sockets)
    /\ sockets[s].state = "open"
    /\ sockets[s].listening
    /\ k = 0 \/ (k \in 1..Len(requests) /\ requests[k].socket = s)
    /\ IF k \in pending
       THEN /\ pending' = pending \ { k }
            /\ requests' = [ requests EXCEPT
                               ![k].timer = "cleared",
                               ![k].state = IF @ = "pending" THEN "resolved" ELSE @,
                               ![k].cause = IF requests[k].state = "pending" THEN "message" ELSE @ ]
       ELSE UNCHANGED << pending, requests >>
    /\ UNCHANGED << ws, sockets, connected, reconnectTimer, closedByCaller,
                    orchestratorVars, patchVars, serverVars >>

\* the caller calls disconnect(): the reconnect timer is cleared, the socket
\* closed with its listeners left on and let go, every entry of pending has
\* its timer cleared and its promise rejected
Disconnect ==
    /\ closedByCaller' = TRUE
    /\ reconnectTimer' = 0
    /\ sockets' = IF ws = 0 THEN sockets
                  ELSE [ sockets EXCEPT ![ws].state = closeSocket(@) ]
    /\ ws' = 0
    /\ connected' = FALSE
    /\ requests' = [ k \in 1..Len(requests) |->
                       IF k \in pending
                       THEN [ requests[k] EXCEPT
                                !.timer = "cleared",
                                !.state = IF @ = "pending" THEN "rejected" ELSE @,
                                !.cause = IF requests[k].state = "pending" THEN "disconnect" ELSE @ ]
                       ELSE requests[k] ]
    /\ pending' = {}
    /\ UNCHANGED << orchestratorVars, patchVars, serverVars >>

\* the reconnect timer fires: connect()
ReconnectFire ==
    /\ reconnectTimer > 0
    /\ reconnectTimer' = reconnectTimer - 1
    /\ connect
    /\ UNCHANGED << connected, pending, requests, closedByCaller,
                    orchestratorVars, patchVars, serverVars >>

\* One BridgeClient, its caller, its sockets and its timers
ClientInit ==
    /\ NewOrchestrator
    /\ config = ServerConfig
    /\ NoPatchCall
    /\ NoBridge

ClientNext ==
    \/ Connect
    \/ Request
    \/ \E k \in 1..Len(requests) : WaitOver(k)
    \/ \E k \in 1..Len(requests) : RequestTimeout(k)
    \/ \E s \in 1..Len(sockets) : SocketOpen(s)
    \/ \E s \in 1..Len(sockets) : SocketError(s)
    \/ \E s \in 1..Len(sockets) : SocketClose(s)
    \/ \E s \in 1..Len(sockets), k \in 0..Len(requests) : SocketMessage(s, k)
    \/ Disconnect
    \/ ReconnectFire

ClientSpec == ClientInit /\ [][ClientNext]_vars

\* ------------------------------------------------------------------------
\* Patch Engine: buildEdits called on its own
\* ------------------------------------------------------------------------

\* longest list of segments given to buildEdits
MaxSegments == 2

\* greatest line number of a selection
MaxSelLine == 1

\* the bodies of the segments
PlainCode == "export const limit = 10;"
HintedCode == "// filename: src/new.ts\nexport const limit = 10;"
HashHintedCode == "# filename: src/app.ts\nlimit = 10"
DiffOneHunk == "--- a/src/app.ts\n+++ b/src/lib.ts\n@@ -5,2 +5,3 @@\n-old\n+new1\n+new2"
DiffTwoHunks ==
    "@@ -3 +3 @@ fn\n keep\n-gone\n+here\n\n\\ No newline\n@@ -10,0 +12,2 @@\n+x\n+y"
DiffNoHunk == "no changes needed"
DiffBrokenHunk == "+++ b/src/lib.ts\n@@ broken @@\n+lost\n@@ -1,1 +1,1 @@\n-a\n+b"
DiffNewFile == "+++ b/\n@@ -0,0 +1,2 @@\n+a\n+b"

\* the segments buildEdits is given: plain ones with and without a file name in
\* the tag or a hint in the body, and diffs
Segments ==
    { Segment("ts", "", PlainCode),
      Segment("ts", "src/app.ts", PlainCode),
      Segment("ts", "src/new.ts", PlainCode),
      Segment("ts", "", HintedCode),
      Segment("ts", "src/app.ts", HintedCode),
      Segment("py", "", HashHintedCode),
      Segment("diff", "", DiffOneHunk),
      Segment("", "", DiffOneHunk),
      Segment("diff", "", DiffTwoHunks),
      Segment("diff", "", DiffNoHunk),
      Segment("diff", "", DiffBrokenHunk),
      Segment("diff", "", DiffNewFile) }

\* the files a request is made from
Files == { "src/app.ts", "src/new.ts" }

\* selectionRange: left out, or a range with endLine >= startLine
Selections ==
    { << >> } \cup
    { << [ startLine |-> ab[1], startChar |-> 2, endLine |-> ab[2], endChar |-> 5 ] >> :
        ab \in { p \in (0..MaxSelLine) \X (0..MaxSelLine) : p[1] <= p[2] } }

PatchInit ==
    /\ NewOrchestrator
    /\ config.enableCritique
    /\ patchCall \in [ codeBlocks : SeqsUpTo(Segments, MaxSegments),
                       currentFile : Files,
                       selectionRange : Selections ]
    /\ edits = NotBuilt
    /\ NoBridge

\* buildEdits(codeBlocks, currentFile, selectionRange) is called and returns
BuildEdits ==
    /\ edits = NotBuilt
    /\ edits' = buildEdits(patchCall.codeBlocks, patchCall.currentFile, patchCall.selectionRange)
    /\ UNCHANGED << orchestratorVars, patchCall, bridgeVars >>

PatchNext == BuildEdits

PatchSpec == PatchInit /\ [][PatchNext]_vars

\* ------------------------------------------------------------------------
\* Consensus Engine: runConsensus called on its own
\* ------------------------------------------------------------------------

\* the confidences of the responses: 0, 1 and the steps between them
ConfidenceSteps == 2

Confidences == { (k * Unit) \div ConfidenceSteps : k \in 0..ConfidenceSteps }

\* the proposal and the codeBlocks of the responses handed to runConsensus;
\* the blocks are those parseCodeBlocks finds in the text (ProposalsAgree)
Proposals ==
    << [ proposal |-> RawGuard, codeBlocks |-> << Block("ts", CodeGuard) >> ],
       [ proposal |-> RawClean, codeBlocks |-> << Block("sh", CodeClean) >> ],
       [ proposal |-> RawPlain, codeBlocks |-> << >> ],
       [ proposal |-> RawBrief, codeBlocks |-> << Block("ts", CodeGuard) >> ],
       [ proposal |-> RawWipe, codeBlocks |-> << Block("sh", CodeWipe), Block("js", CodeHalt) >> ],
       [ proposal |-> RawTagged, codeBlocks |-> << >> ] >>

ProposalsAgree ==
    \A k \in 1..Len(Proposals) : Proposals[k].codeBlocks = parseCodeBlocks(Proposals[k].proposal)

\* runConsensus is called with one to three participants, each once, in any
\* order, each with one of the Proposals and one of the Confidences
ConsensusInit ==
    /\ TablesAgree
    /\ ProposalsAgree
    /\ controllers = << >>
    /\ config \in Configs
    /\ config.enableCritique
    /\ pc = "none"
    /\ enabledModels = Absent
    /\ modelsToUse = << >>
    /\ calls = << >>
    /\ \E ms \in { m \in SeqsUpTo(ModelNames, Cardinality(ModelNames)) :
                     Len(m) >= 1 /\ \A i, j \in 1..Len(m) : m[i] = m[j] => i = j } :
       \E ps \in [ 1..Len(ms) -> 1..Len(Proposals) ] :
       \E cs \in [ 1..Len(ms) -> Confidences ] :
           responses = << >> \o [ i \in 1..Len(ms) |->
                                    [ model |-> ms[i],
                                      proposal |-> Proposals[ps[i]].proposal,
                                      codeBlocks |-> Proposals[ps[i]].codeBlocks,
                                      confidence |-> cs[i],
                                      error |-> "" ] ]
    /\ result = NoResult
    /\ error = ""
    /\ firstCompleted = 0
    /\ lateAsks = 0
    /\ NoPatchCall
    /\ NoBridge

\* runConsensus(responses, currentFile, selectionRange) is called and returns
RunConsensus ==
    /\ result = NoResult
    /\ result' = runConsensus(responses)
    /\ edits' = consensusEdits(responses, result', patchCall.currentFile,
                               patchCall.selectionRange)
    /\ UNCHANGED << controllers, config, pc, enabledModels, modelsToUse, calls, responses,
                    error, firstCompleted, lateAsks, patchCall, bridgeVars >>

ConsensusNext == RunConsensus

ConsensusSpec == ConsensusInit /\ [][ConsensusNext]_vars

\* ------------------------------------------------------------------------
\* Properties
\* ------------------------------------------------------------------------

\* the run() on record has settled
RunOver == pc \in { "returned", "threw" }

\* call c handed a response to dispatchParallel
Responded(c) == c.status = "fulfilled" /\ c.value # 0

\* the indexes of the calls that responded, ascending
RespondedCalls == SelectSeq([ i \in 1..Len(calls) |-> i ], LAMBDA i : Responded(calls[i]))

SetOf(q) == { q[i] : i \in 1..Len(q) }

NoDuplicates(q) == \A i, j \in 1..Len(q) : q[i] = q[j] => i = j

\* the total of a response's own ScoreBreakdown
TotalOf(r) == scoreProposal(r).total

\* C1: the scores of a returned result have exactly one entry per response given
\* to runConsensus, and the entry of each response's participant is the
\* ScoreBreakdown of that response.
C1_OneScorePerResponse ==
    pc = "returned" =>
        /\ Cardinality(DOMAIN result.scores) = Len(responses)
        /\ \A i \in 1..Len(responses) :
               result.scores[responses[i].model] = scoreProposal(responses[i])

C3_StrategyFromRankedTotals ==
    pc = "returned" =>
        IF Len(responses) = 1
        THEN /\ result.mergeStrategy = "clear_winner"
             /\ result.winnerModel = responses[1].model
        ELSE \E top \in 1..Len(responses) :
                 /\ result.winnerModel = responses[top].model
                 /\ \A j \in 1..Len(responses) : TotalOf(responses[top]) >= TotalOf(responses[j])
                 /\ \E second \in 1..Len(responses) \ { top } :
                        /\ \A j \in 1..Len(responses) \ { top } :
                               TotalOf(responses[second]) >= TotalOf(responses[j])
                        /\ LET gap == TotalOf(responses[top]) - TotalOf(responses[second])
                           IN  result.mergeStrategy =
                                   IF 2 * gap > 3 * TotalUnit THEN "clear_winner" ELSE "merged"

\* the orderings of n positions
Orderings(n) == { p \in [ 1..n -> 1..n ] : \A i, j \in 1..n : p[i] = p[j] => i = j }

\* what C4 compares of a ConsensusResult
Outcome(r) ==
    << r.winnerModel, r.mergeStrategy, r.finalProposal, r.consensusScore, r.confidence >>

\* C4: runConsensus on any reordering of the responses of a returned run (taken
\* here with one response per participant) gives the same winner, strategy,
\* final text, consensusScore and confidence.
C4_OrderIndependent ==
    (pc = "returned" /\ NoDuplicates(Map(responses, LAMBDA r : r.model))) =>
        \A p \in Orderings(Len(responses)) :
            Outcome(runConsensus(<< >> \o [ i \in 1..Len(responses) |-> responses[p[i]] ]))
                = Outcome(result)

\* C5: modelsUsed of a returned result lists the participants of the calls that
\* responded, in the order of the resolved list.
C5_ModelsUsedInResolvedOrder ==
    pc = "returned" =>
        /\ \A i \in 1..Len(calls) : calls[i].model = modelsToUse[i]
        /\ result.modelsUsed = Map(RespondedCalls, LAMBDA i : modelsToUse[i])

\* two participants responded, the second of the list first
C5_CompletedOutOfOrder ==
    /\ pc = "returned"
    /\ Len(calls) = 2
    /\ calls[1].model # calls[2].model
    /\ Responded(calls[1]) /\ Responded(calls[2])
    /\ firstCompleted = 2
    /\ result.modelsUsed = << calls[1].model, calls[2].model >>

\* C6: run() waits for no call that has settled; once every call has settled
\* and one of them responded it has returned; the responses of a returned run
\* are those of the calls that responded, one each, in list order; a participant
\* none of whose calls responded is not in modelsUsed.
C6_FailuresIsolated ==
    /\ pc = "dispatching" => ~Settled(calls)
    /\ (RunOver /\ \E i \in 1..Len(calls) : Responded(calls[i])) => pc = "returned"
    /\ pc = "returned" =>
           /\ Len(responses) = Len(RespondedCalls)
           /\ \A k \in 1..Len(responses) :
                  /\ responses[k].model = calls[RespondedCalls[k]].model
                  /\ responses[k].proposal = Replies[calls[RespondedCalls[k]].value].proposal
           /\ \A i \in 1..Len(calls) :
                  (\A j \in 1..Len(calls) : calls[j].model = calls[i].model => ~Responded(calls[j]))
                      => ~InSeq(result.modelsUsed, calls[i].model)

\* one participant timed out, the other responded: the result is the other's
C6_OneTimedOutOneResponded ==
    /\ pc = "returned"
    /\ Len(calls) = 2
    /\ calls[1].model # calls[2].model
    /\ calls[1].timer = "fired" /\ ~Responded(calls[1])
    /\ Responded(calls[2])
    /\ result.modelsUsed = << calls[2].model >>
    /\ result.winnerModel = calls[2].model

\* C7: when ask() of a call resolves after the call's timer has fired, the call
\* keeps its null value, and run()'s position, responses, result and error stay
\* as they are; the same holds when an ask() of an earlier run settles.
C7_LateResponseDiscarded ==
    [][ /\ \A i \in 1..Len(calls) :
             ( /\ calls[i].timer = "fired"
               /\ calls[i].ask = "inflight"
               /\ i <= Len(calls')
               /\ calls'[i].ask = "resolved" )
             => /\ calls'[i].value = 0
                /\ calls'[i].status = calls[i].status
                /\ UNCHANGED << pc, responses, result, error >>
        /\ lateAsks' < lateAsks => UNCHANGED << pc, calls, responses, result, error >>
      ]_vars

\* a run has returned without the response of a call whose ask() resolved after
\* its timer fired
C7_LateResponseArrived ==
    /\ pc = "returned"
    /\ \E i \in 1..Len(calls) :
           /\ calls[i].timer = "fired"
           /\ calls[i].ask = "resolved"
           /\ calls[i].value = 0
           /\ ~InSeq(result.modelsUsed, calls[i].model)

\* C8: a run whose calls have all settled without a response has thrown the
\* "all failed" error: nothing went to runConsensus and there is no result.
C8_AllFailedThrows ==
    ( /\ pc # "none"
      /\ Len(modelsToUse) > 0
      /\ Settled(calls)
      /\ \A i \in 1..Len(calls) : ~Responded(calls[i]) )
    => /\ pc = "threw"
       /\ error = AllModelsFailed
       /\ responses = << >>
       /\ result = NoResult

\* two calls failed, one by its timer and one by a rejection
C8_TimedOutAndRejected ==
    /\ pc = "threw"
    /\ error = AllModelsFailed
    /\ \E i, j \in 1..Len(calls) : calls[i].timer = "fired" /\ calls[j].status = "rejected"

\* C9: a run on an empty registry, or given a non-empty enabled list that names
\* no registered participant, has thrown the configuration error with no call
\* made: no isReady(), no ask(), no timer.
C9_EmptyResolutionThrows ==
    ( /\ pc # "none"
      /\ \/ controllers = << >>
         \/ /\ enabledModels # Absent
            /\ Len(enabledModels) > 0
            /\ \A i \in 1..Len(enabledModels) : ~InSeq(controllers, enabledModels[i]) )
    => /\ pc = "threw"
       /\ error = NoModelsAvailable
       /\ modelsToUse = << >>
       /\ calls = << >>
       /\ result = NoResult

\* a run given only names that are not registered, on a registry that is not empty
C9_EnabledNamesUnregistered ==
    /\ pc = "threw"
    /\ error = NoModelsAvailable
    /\ controllers # << >>
    /\ enabledModels # Absent
    /\ Len(enabledModels) > 0

\* C10: the resolved list of a run given a non-empty enabled list holds each
\* enabled and registered participant exactly once and nothing else, so that no
\* participant is dispatched twice; without an enabled list, or with an empty
\* one, it is the registry.
C10_ResolvedIsIntersection ==
    pc # "none" =>
        IF enabledModels # Absent /\ Len(enabledModels) > 0
        THEN /\ SetOf(modelsToUse) = SetOf(enabledModels) \cap SetOf(controllers)
             /\ NoDuplicates(modelsToUse)
             /\ NoDuplicates(Map(calls, LAMBDA c : c.model))
        ELSE modelsToUse = controllers

\* ------------------------------------------------------------------------
\* Properties of the critique round and of dispatch
\* ------------------------------------------------------------------------

\* the responses dispatchParallel collected in the run on record, as the
\* participants returned them
Collected == dispatchParallel(calls)

\* the run on record went through runCritiqueRound
CritiqueRan == config.enableCritique /\ Len(Collected) > 1

C12_CritiqueBeforeConsensus ==
    pc = "returned" =>
        /\ responses = IF CritiqueRan THEN runCritiqueRound(Collected) ELSE Collected
        /\ ~CritiqueRan =>
               \A k \in 1..Len(responses) :
                   responses[k].confidence = Replies[calls[RespondedCalls[k]].value].confidence
        /\ \A m \in DOMAIN result.scores :
               \E k \in 1..Len(responses) :
                   /\ responses[k].model = m
                   /\ result.scores[m] = scoreProposal(responses[k])
        /\ \E k \in 1..Len(responses) :
               /\ responses[k].model = result.winnerModel
               /\ result.confidence = responses[k].confidence

\* the critique round raised the confidence of a response, and the result
\* carries the score of the raised confidence
C12_ScoredAfterBoost ==
    /\ pc = "returned"
    /\ CritiqueRan
    /\ NoDuplicates(Map(responses, LAMBDA r : r.model))
    /\ \E k \in 1..Len(responses) :
           /\ responses[k].confidence > Collected[k].confidence
           /\ result.scores[responses[k].model] = scoreProposal(responses[k])
           /\ result.scores[responses[k].model] # scoreProposal(Collected[k])

\* C13: a run() that is awaiting its calls settles in the end, whatever the
\* ask() calls do, and it is awaiting only while one of its calls has neither
\* responded, failed, been skipped nor timed out.
C13_RunSettles ==
    /\ [](pc = "dispatching" => ~Settled(calls))
    /\ (pc = "dispatching") ~> RunOver

\* a run has settled with every ask() it issued still unanswered
C13_SettledWithoutAnyAnswer ==
    /\ RunOver
    /\ Len(calls) = 2
    /\ \A i \in 1..Len(calls) : calls[i].ask = "inflight" /\ calls[i].timer = "fired"

Built == edits # NotBuilt

\* C15: every Edit buildEdits returns (currentFile not empty, selectionRange
\* left out or with endLine >= startLine) has a file that is not empty, has a
\* range exactly when its action is replace, and then endLine >= startLine.
C15_EditsWellFormed ==
    Built =>
        \A k \in 1..Len(edits) :
            /\ edits[k].file # ""
            /\ ("range" \in DOMAIN edits[k]) <=> (edits[k].action = "replace")
            /\ edits[k].action = "replace" => edits[k].range.endLine >= edits[k].range.startLine

\* buildEdits returned a replace Edit made from a hunk whose "+++ " line names no
\* file, next to an Edit that is not a replace
C15_ReplaceAndOtherEdits ==
    /\ Built
    /\ \E k \in 1..Len(patchCall.codeBlocks) : patchCall.codeBlocks[k].code = DiffNewFile
    /\ \E k \in 1..Len(edits) : edits[k].action = "replace" /\ edits[k].file = patchCall.currentFile
    /\ \E k \in 1..Len(edits) : edits[k].action # "replace"

\* the file name C16 resolves for a segment that is not a diff: the segment's,
\* else the hint in its body, else currentFile
ResolvedFile(block) ==
    IF block.filename # "" THEN block.filename
    ELSE IF extractFilenameHint(block.code) # "" THEN extractFilenameHint(block.code)
    ELSE patchCall.currentFile

\* C16: buildEdits on segments that are not diffs returns one Edit per segment,
\* in order, on the file resolved for the segment; its action is create when
\* that file differs from currentFile, else replace with exactly the supplied
\* selection range when one was supplied, else full.
C16_OneEditPerPlainSegment ==
    (Built /\ \A k \in 1..Len(patchCall.codeBlocks) : ~patchCall.codeBlocks[k].isDiff) =>
        /\ Len(edits) = Len(patchCall.codeBlocks)
        /\ \A k \in 1..Len(edits) :
               /\ edits[k].file = ResolvedFile(patchCall.codeBlocks[k])
               /\ edits[k].action =
                      IF ResolvedFile(patchCall.codeBlocks[k]) # patchCall.currentFile THEN "create"
                      ELSE IF patchCall.selectionRange # << >> THEN "replace"
                      ELSE "full"
               /\ edits[k].action = "replace" => edits[k].range = patchCall.selectionRange[1]

\* the lines of a diff body that are hunk headers, "@@ -s[,c] +s[,c] @@", ascending
HeaderLines(lines) ==
    SelectSeq(<< >> \o [ j \in 1..Len(lines) |-> j ], LAMBDA j : hunkMatch(lines[j]) # << >>)

\* the number of Edits a segment stands for: one per hunk header of a diff, one
\* for a segment that is not a diff
EditCount(block) == IF block.isDiff THEN Len(HeaderLines(SplitLines(block.code))) ELSE 1

\* the number of Edits of the segments before segment k of the call
EditsBefore(k) == SumSeq([ j \in 1..(k - 1) |-> EditCount(patchCall.codeBlocks[j]) ])

\* the added and context lines among the body lines i..(stop - 1), in their
\* order, without the marker
AddedAndContext(lines, i, stop) ==
    Map(SelectSeq(SubSeq(lines, i, stop - 1),
                  LAMBDA l : l = "" \/ StartsAt(l, "+", 1) \/ StartsAt(l, " ", 1)),
        LAMBDA l : IF l = "" THEN l ELSE SubSeq(l, 2, Len(l)))

\* C17: for the n-th hunk header "@@ -s[,c] +... @@" of a diff segment the Edit
\* at its place is a replace with range (s - 1, 0) to (s - 1 + c, 0), c being
\* the count written in the header (1 when left out), and newText the added and
\* context lines of the hunk in their order, markers removed, joined by newlines.
C17_HunkRangeFromHeader ==
    Built =>
        \A k \in 1..Len(patchCall.codeBlocks) :
            patchCall.codeBlocks[k].isDiff =>
                \A lines \in { SplitLines(patchCall.codeBlocks[k].code) } :
                \A heads \in { HeaderLines(lines) } :
                \A n \in 1..Len(heads) :
                    /\ EditsBefore(k) + n <= Len(edits)
                    /\ edits[EditsBefore(k) + n].action = "replace"
                    /\ edits[EditsBefore(k) + n].range =
                           [ startLine |-> hunkMatch(lines[heads[n]])[1] - 1,
                             startChar |-> 0,
                             endLine |-> hunkMatch(lines[heads[n]])[1] - 1
                                         + hunkMatch(lines[heads[n]])[2],
                             endChar |-> 0 ]
                    /\ edits[EditsBefore(k) + n].newText =
                           JoinLines(AddedAndContext(lines, heads[n] + 1,
                                                     NextHunkLine(lines, heads[n] + 1)))

\* the hunk "@@ -5,2 +5,3 @@" with one removed and two added lines gave the
\* range 4 to 6 and the two added lines
C17_RoundTripExample ==
    /\ Built
    /\ Len(patchCall.codeBlocks) = 1
    /\ patchCall.codeBlocks[1].code = DiffOneHunk
    /\ Len(edits) = 1
    /\ edits[1].range = [ startLine |-> 4, startChar |-> 0, endLine |-> 6, endChar |-> 0 ]
    /\ edits[1].newText = "new1\nnew2"

\* the file a diff body names: on the "+++ " line before the first @@ line,
\* without a leading b/ ("" when it names none)
NamedFile(lines) ==
    LET heads == { j \in 1..(NextHunkLine(lines, 1) - 1) : StartsAt(lines[j], "+++ ", 1) }
        name == Trim(SubSeq(lines[Greatest(heads)], 5, Len(lines[Greatest(heads)])))
    IN  IF heads = {} THEN ""
        ELSE IF StartsAt(name, "b/", 1) THEN SubSeq(name, 3, Len(name))
        ELSE name

\* C18: buildEdits returns, for every diff segment, as many Edits as the segment
\* has hunk headers (none when it has none), in the order of the headers, all on
\* the file its "+++ " line names, or on currentFile when it names none.
C18_OneEditPerHunkHeader ==
    Built =>
        /\ Len(edits) = EditsBefore(Len(patchCall.codeBlocks) + 1)
        /\ \A k \in 1..Len(patchCall.codeBlocks) :
               patchCall.codeBlocks[k].isDiff =>
                   \A lines \in { SplitLines(patchCall.codeBlocks[k].code) } :
                   \A heads \in { HeaderLines(lines) } :
                   \A n \in 1..Len(heads) :
                       /\ edits[EditsBefore(k) + n].file =
                              IF NamedFile(lines) = "" THEN patchCall.currentFile
                              ELSE NamedFile(lines)
                       /\ edits[EditsBefore(k) + n].range.startLine =
                              hunkMatch(lines[heads[n]])[1] - 1

\* a diff of two hunks gave two Edits in the order of the hunks, and a segment
\* tagged diff that has no hunk header gave none
C18_TwoHunksThenNoHunk ==
    /\ Built
    /\ Len(patchCall.codeBlocks) = 2
    /\ patchCall.codeBlocks[1].code = DiffTwoHunks
    /\ patchCall.codeBlocks[2].code = DiffNoHunk
    /\ patchCall.codeBlocks[2].isDiff
    /\ patchCall.codeBlocks[2].language = "diff"
    /\ Len(edits) = 2
    /\ edits[1].range.startLine = 2
    /\ edits[2].range.startLine = 9
    /\ \A k \in 1..2 : edits[k].file = patchCall.currentFile /\ edits[k].action = "replace"

\* the score runConsensus recorded for the i-th response it was called with
ScoreOf(i) == result.scores[responses[i].model]

\* the number of dangerPatterns that match in one block or another of a response
DangerCountOf(response) ==
    Cardinality(UNION { DangerOf(response.codeBlocks[b].code) : b \in 1..Len(response.codeBlocks) })

\* C19: for every response with a confidence in [0, 1] the five sub-scores of
\* scoreProposal are in [0, 10], total is 0.30 correctness + 0.25 completeness
\* + 0.20 safety + 0.15 style + 0.10 performance and so in [0, 10], and safety
\* is max(0, 10 - 3k) for k dangerous patterns matched in its segments, at most
\* 7 when a segment contains "rm -rf".
C19_ScoresInRange ==
    result # NoResult =>
        \A i \in 1..Len(responses) :
            responses[i].confidence \in 0..Unit =>
                /\ \A sub \in { "correctness", "completeness", "safety", "style", "performance" } :
                       ScoreOf(i)[sub] \in 0..(10 * Unit)
                /\ ScoreOf(i).total = 30 * ScoreOf(i).correctness + 25 * ScoreOf(i).completeness
                                      + 20 * ScoreOf(i).safety + 15 * ScoreOf(i).style
                                      + 10 * ScoreOf(i).performance
                /\ ScoreOf(i).total \in 0..(10 * TotalUnit)
                /\ ScoreOf(i).safety = Max(0, 10 * Unit - 3 * Unit * DangerCountOf(responses[i]))
                /\ (\E b \in 1..Len(responses[i].codeBlocks) :
                        Includes(responses[i].codeBlocks[b].code, "rm -rf"))
                   => ScoreOf(i).safety <= 7 * Unit

\* scored together: a response whose blocks match four patterns, with safety 0,
\* one whose block contains "rm -rf" and nothing else, with safety 7, and one
\* with code and a confidence of 1, with correctness 10
C19_FourPatternsAndOne ==
    /\ result # NoResult
    /\ Len(responses) = 3
    /\ responses[1].proposal = RawWipe
    /\ DangerCountOf(responses[1]) = 4
    /\ ScoreOf(1).safety = 0
    /\ responses[2].proposal = RawClean
    /\ ScoreOf(2).safety = 7 * Unit
    /\ responses[3].confidence = Unit
    /\ ScoreOf(3).safety = 10 * Unit
    /\ ScoreOf(3).correctness = 10 * Unit

\* the responses other than those at the indexes in S whose total is the highest
BestOutside(S) ==
    { i \in (1..Len(responses)) \ S :
        \A j \in (1..Len(responses)) \ S : ScoreOf(i).total >= ScoreOf(j).total }

\* the top-ranked and the second-ranked response: the highest totals, the
\* earlier response first among equal totals
TopRanked == responses[Least(BestOutside({}))]

SecondRanked == responses[Least(BestOutside({ Least(BestOutside({})) }))]

\* the block appended for the second-ranked response
InsightsOf(second) ==
    "\n\n<!-- Additional insights from " \o second.model \o " -->\n"
    \o extractExplanation(second.proposal)

\* C20: under the merged strategy the final text begins with the raw text of
\* the top-ranked response; it is that text followed by the insights block of
\* the second-ranked response exactly when the explanation of the second is
\* more than 1.5 times as long as that of the top, and that text alone
\* otherwise. No other response has a part in it.
C20_MergedTextFromTopTwo ==
    (result # NoResult /\ result.mergeStrategy = "merged") =>
        /\ SubSeq(result.finalProposal, 1, Len(TopRanked.proposal)) = TopRanked.proposal
        /\ result.finalProposal =
               IF 2 * Len(extractExplanation(SecondRanked.proposal))
                    > 3 * Len(extractExplanation(TopRanked.proposal))
               THEN TopRanked.proposal \o InsightsOf(SecondRanked)
               ELSE TopRanked.proposal

\* three responses merged: the second-ranked one gave its explanation, the
\* third, whose explanation is the longest of all, gave nothing
C20_InsightsFromSecondOnly ==
    /\ result # NoResult
    /\ result.mergeStrategy = "merged"
    /\ Len(responses) = 3
    /\ responses[1].proposal = RawClean
    /\ TopRanked = responses[3]
    /\ SecondRanked = responses[2]
    /\ TopRanked.proposal = RawBrief
    /\ SecondRanked.proposal = RawGuard
    /\ Len(ExplainClean) > Len(ExplainGuard)
    /\ result.finalProposal = RawBrief \o InsightsOf(responses[2])

\* C22: a run() that got as far as dispatching returns a ConsensusResult when
\* the number of collected responses is at least config.minResponses, and
\* throws when it is lower.
C22_MinResponsesEnforced ==
    (pc \in { "returned", "threw" } /\ Len(modelsToUse) > 0) =>
        (pc = "returned" <=> Len(Collected) >= config.minResponses)

\* the gap runConsensus computes: the recorded total of the response its sort
\* puts first less that of the response it puts second
GapOfRanked ==
    LET ranked == Ranked(responses, result.scores)
    IN  result.scores[ranked[1].model].total - result.scores[ranked[2].model].total

\* C23: runConsensus on two responses or more never returns judge_fallback: the
\* gap between the first and the second of the ranking is not negative, and the
\* strategy is clear_winner or merged.
C23_NeverJudgeFallback ==
    (result # NoResult /\ Len(responses) >= 2) =>
        /\ GapOfRanked >= 0
        /\ result.mergeStrategy \in { "clear_winner", "merged" }
        /\ result.mergeStrategy = "clear_winner" <=> 2 * GapOfRanked > 3 * TotalUnit

\* three responses given lowest total first were ranked, and the last one won
\* clearly
C23_RankedFromAscendingInput ==
    /\ result # NoResult
    /\ Len(responses) = 3
    /\ ScoreOf(1).total < ScoreOf(2).total
    /\ ScoreOf(2).total < ScoreOf(3).total
    /\ result.mergeStrategy = "clear_winner"
    /\ result.winnerModel = responses[3].model
    /\ 2 * GapOfRanked > 3 * TotalUnit

\* call c ended with an ask() that failed on every attempt
Exhausted(c) == c.status = "fulfilled" /\ c.value # 0 /\ Replies[c.value] = AskExhausted

\* C25: a participant whose ask() failed on every attempt counts as no
\* response: a returned run has handed no response of such a participant to
\* runConsensus, so none is scored, listed as used or the winner, and a run in
\* which every call ended that way throws the "all failed" error.
C25_ExhaustedIsNoResponse ==
    /\ pc = "returned" =>
           /\ \A k \in 1..Len(responses) : responses[k].error = ""
           /\ \A i \in 1..Len(calls) : Exhausted(calls[i]) => result.winnerModel # calls[i].model
    /\ (pc \in { "returned", "threw" } /\ Len(calls) > 0
          /\ \A i \in 1..Len(calls) : Exhausted(calls[i]))
       => (pc = "threw" /\ error = AllModelsFailed)

\* C26: every replace Edit made from a diff hunk has a 0-indexed range that is
\* not negative: startLine >= 0 and endLine >= 0, also for a header whose old
\* start is 0.
C26_HunkRangeNotNegative ==
    Built =>
        \A k \in 1..Len(patchCall.codeBlocks) :
            patchCall.codeBlocks[k].isDiff =>
                \A n \in 1..EditCount(patchCall.codeBlocks[k]) :
                    /\ edits[EditsBefore(k) + n].range.startLine >= 0
                    /\ edits[EditsBefore(k) + n].range.endLine >= 0

\* C27: once the ask() of a call has settled with its timer not yet fired, the
\* timer of that call is cancelled, so it is not left armed to fire and warn
\* later; and no call of a run that has returned or thrown has an armed timer.
C27_SettledAskCancelsTimer ==
    /\ \A i \in 1..Len(calls) :
           calls[i].ask \in { "resolved", "rejected" } => calls[i].timer # "armed"
    /\ pc \in { "returned", "threw" } => \A i \in 1..Len(calls) : calls[i].timer # "armed"

\* C28: at most one ask() is in flight on a registered controller at any time.
\* With one controller registered for good, and a run whose list names no
\* participant twice: the asks of earlier runs still in flight and those of the
\* current run are at most one together.
C28_OneAskPerController ==
    (\A i, j \in 1..Len(modelsToUse) : modelsToUse[i] = modelsToUse[j] => i = j) =>
        lateAsks + Count(calls, LAMBDA c : c.ask = "inflight") <= 1

\* buildEdits on the segments the Response Parser extracts from the final text,
\* or on the top-ranked response's own segments when it extracts none
EditsOfFinalText ==
    LET finalBlocks == extractCodeBlocks(result.finalProposal)
    IN  buildEdits(IF Len(finalBlocks) > 0 THEN finalBlocks ELSE TopRanked.codeBlocks,
                   patchCall.currentFile, patchCall.selectionRange)

\* C24: for one response as for several, the edits of the result are buildEdits
\* of the segments extracted again from the final text when there is at least
\* one, and of the top-ranked response's own segments otherwise.
C24_EditsFromFinalText ==
    result # NoResult => edits = EditsOfFinalText

\* C21: for every message the bridge server receives (text that is not JSON,
\* JSON that is no request object, an unknown type, a ping, an ask/edit/create
\* whose run raises or returns), the handler neither throws nor rejects and
\* has sent exactly one response when it is over; a response of a failure has
\* success = false and an error text; the response to a message that parsed
\* carries the request's id
C21_OneResponsePerMessage ==
    /\ server.state # "rejected"
    /\ server.state = "returned" =>
          /\ Len(server.sent) = 1
          /\ ~server.sent[1].success => server.sent[1].error # ""
          /\ server.request.json # "malformed" => server.sent[1].id = server.request.id

RequestSettled(k) == requests[k].state \in { "resolved", "rejected" }

\* C29: a promise request() returned settles by the first message of its id
\* (resolved), by its request timeout or by disconnect() (rejected), and by
\* nothing else; once it has settled its entry is out of pending and its timer
\* is not armed; after disconnect() pending is empty, and stays empty while
\* the client holds no socket
C29_RequestSettlesOnce ==
    /\ \A k \in 1..Len(requests) :
          RequestSettled(k) =>
              /\ requests[k].cause \in { "message", "timeout", "disconnect" }
              /\ requests[k].state = "resolved" <=> requests[k].cause = "message"
              /\ k \notin pending
              /\ requests[k].timer # "armed"
    /\ (closedByCaller /\ ws = 0) => pending = {}

\* C30: once disconnect() has been called, and until the caller calls
\* connect() or request(), no reconnect timer is pending and the client holds
\* no socket, whatever the sockets it closed emit; at most one reconnect
\* timer is pending at any time
C30_StaysDisconnected ==
    /\ reconnectTimer <= 1
    /\ closedByCaller => reconnectTimer = 0 /\ ws = 0

====
